---- MODULE Spec2Model ----
(***************************************************************************)
(* State-machine model of the Jarvis assistant daemon: the resilient       *)
(* listener wrapper (main.py), the watchdog (watchdog.py), the task store  *)
(* (db.py, tools.py, telegram_bot.py), the confidence-banded dispatch      *)
(* (confidence_manager.py), the ingest handler (telegram_listener.py),     *)
(* the tool loop (ai_brain.py), the confidence queue and the timed         *)
(* reminders (scheduler.py), the steps of the message handler              *)
(* (telegram_listener.py), the owner gate of the bot (telegram_bot.py),    *)
(* shutdown (main.py), the retries of AIBrain.ask and the parsing of a     *)
(* classification (ai_brain.py), execute_tool and the create_task and      *)
(* update_preferences tools (tools.py), the whitelist and blacklist        *)
(* mutations, the debounce of the tracked-task checks, the feedback after  *)
(* a classification button, the daily batch review, the handlers of        *)
(* concurrent events and the chat-name cache.                              *)
(*                                                                         *)
(* Each component has its own specification (SpecListener, SpecWatchdog,   *)
(* SpecTasks, SpecClassify, SpecAutoTask, SpecIngest, SpecAsk, SpecRecur,  *)
(* SpecQueue, SpecReminders, SpecUrgent, SpecHandler, SpecBot,             *)
(* SpecShutdown, SpecAskRetry, SpecParse, SpecTools, SpecToolCreate,       *)
(* SpecPreferences, SpecLists, SpecTracked, SpecFeedback, SpecBatch,       *)
(* SpecConcurrent, SpecChatNames); the variables of the other components   *)
(* stay at their initial values under it.                                  *)
(*                                                                         *)
(* db.py is the authority for the statements it holds.  Callers pass some  *)
(* keyword arguments (account, remind_at, track_completion, ...) that the  *)
(* functions of db.py do not store; the task rows of the model keep the    *)
(* SQL statement of db.py and drop those columns, and create_kwargs keeps  *)
(* what the HIGH-band call passed.  Functions that callers import from     *)
(* db.py and db.py does not hold (get_timed_reminders, mark_reminder_sent) *)
(* follow their description in the specification.                          *)
(***************************************************************************)
EXTENDS Integers, Sequences, FiniteSets, Bags, TLC

VARIABLES
    \* ---- main.py: _resilient_listener / shutdown
    lpc,              \* position of the wrapper: "loop", "starting", "running", "sleeping", "done"
    retry_delay,      \* main.py:111
    notified_down,    \* main.py:113
    recovering,       \* telegram_listener.py:43 (_recovering)
    shutting_down,    \* main.py:147 (_shutting_down)
    crashes,          \* history: crashes of the running outage (0 = listener is up or never started)
    offline_sent,     \* history: offline notices sent during the running outage
    outages_ended,    \* history: outages ended by a successful reconnect
    restored_sent,    \* history: restored notices sent
    waits,            \* history: the waits of the running outage, in order
    total_crashes,    \* history: crashes since the process started (bounded)
    sleep_left,       \* main.py:142  seconds left of the running asyncio.sleep, 0 = none runs
    \* ---- watchdog.py
    hb,               \* health_checks: module -> missed heartbeat intervals, -1 = no row
    known_down,       \* watchdog.py:25 (_known_down)
    alert_counts,     \* watchdog.py:23 (_alert_counts), 0 = no entry
    episode_alerts,   \* history: down alerts sent for the module in its running down episode
    silenced,         \* history: a scan of the running episode skipped the alert (budget used up)
    seen_down,        \* history: modules whose latest judgement by a scan was "down"
    scan,             \* history: what the latest scan did (NoScan after any other step)
    \* ---- db.py: tasks
    tasks,            \* table tasks, in insertion order; the id of a row is its index
    inflight,         \* bag of the task operations that have read the table and not yet written it
    \* ---- confidence_manager.py, telegram_bot.py: classification
    verdict,          \* message id -> what process_classification decided on, NoVerdict before
    dpc,              \* message id -> position of its _delayed_medium_notify coroutine
    dargs,            \* message id -> notify_kwargs["extra"] held by that coroutine
    waited,           \* message id -> seconds its _delayed_medium_notify has slept
    recheck,          \* history: message id -> outcome of the re-check after the delay
    prompts,          \* history: message id -> calls of notify_owner with a classify_* markup
    buttons,          \* message id -> markup of the notice that reached the owner, "none" if none did
    classify_extra,   \* telegram_bot.py:60 (_classify_extra), NoExtra = no entry
    pressed,          \* history: message id -> buttons the owner pressed while the entry existed
    create_kwargs,    \* history: message id -> what its HIGH-band create_task call passed on
    \* ---- telegram_listener.py: on_new_message
    messages,         \* table messages: bag of rows (key, length of the text, what the handler did)
    known_contact,    \* table contacts: the person of the model has a row
    contact_notices,  \* history: new-contact notices sent
    last,             \* history: the last delivery, and whether its key was stored before it
    restarted,        \* history: the process was started again after the latest insert
    \* ---- ai_brain.py: ask_with_tools
    apc,              \* position of the call: "idle", "loop", "returned", "raised"
    round_num,        \* ai_brain.py:534
    conversation,     \* ai_brain.py:532, the roles of the turns appended to the history
    tool_calls_log,   \* ai_brain.py:529, the names of the tools executed
    ask_result,       \* the text of the returned dict, NoResult before the return
    stops,            \* history: stop_reason of every response of this call, in order
    model_calls,      \* history: calls of messages.create made by this call
    last_content,     \* history: the content blocks of the latest response
    \* ---- tools.py: recurrence of the tasks the owner dictates
    asked_recurrence, \* history: task id -> the recurrence its _tool_create_task call passed on
    \* ---- db.py / confidence_manager.py: the confidence queue
    confidence_queue, \* table confidence_queue: row id -> (message_id, text_preview, predicted_type, resolved)
    feedback,         \* table classification_feedback: the rows in the order inserted
    \* ---- scheduler.py: check_timed_reminders
    timed,            \* table tasks: task id -> (status, remind_at, remind_at_sent)
    now,              \* the clock, in minutes
    reminded,         \* history: task id -> reminder notifications delivered for it (counted up to MaxReminded)
    \* ---- confidence_manager.py: the urgent prompts of a day
    today_questions,  \* confidence_manager.py:52 (_today_questions)
    day,              \* the calendar day
    urgent_today,     \* history: immediate urgent prompts sent on this day
    last_verdict,     \* history: the verdict process_classification handled last
    \* ---- telegram_listener.py: on_new_message / _classify_and_mark, step by step
    hpc,              \* event -> position of its handler
    hkind,            \* event -> what the event is (fixed when it arrives)
    row,              \* event -> its row is in the messages table
    processed,        \* event -> messages.processed of its row
    clf,              \* event -> the classifier call: "none", "running", "returned", "raised"
    raised_at,        \* history: event -> the steps of its handler that raised
    escaped,          \* history: event -> an exception left on_new_message
    \* ---- telegram_bot.py: the handlers of the bot's updates
    store_writes,     \* history: store mutations made by the bot's handlers
    llm_calls,        \* history: LLM calls made by the bot's handlers
    outgoing,         \* history: messages and callback answers the handlers sent
    last_update,      \* history: the update handled last
    \* ---- main.py: shutdown
    sd_pc,            \* invocation of shutdown -> its position
    stop_calls,       \* history: the stop functions called by shutdown, in order
    \* ---- ai_brain.py: AIBrain.ask
    epc,              \* position of the ask call
    ask_args,         \* the arguments of the call and the mode read from the settings
    attempt,          \* ai_brain.py:70  the loop variable
    backend_calls,    \* history: the backend calls made, in order, with their outcome
    ask_waits,        \* history: the seconds slept, in order
    ask_outcome,      \* history: how the call ended
    \* ---- ai_brain.py: _parse_classification
    raw,              \* the raw response of the judge
    parsed,           \* what _parse_classification made of it
    \* ---- tools.py: execute_tool inside the rounds of ask_with_tools
    xpc,              \* position of the loop: "model", "tools", "returned", "raised"
    x_round,          \* ai_brain.py:534 (round_num)
    pending,          \* the tool_use blocks of the response that are still to run
    requested,        \* history: the number of tool_use blocks of the response
    tool_results,     \* ai_brain.py:573 (tool_results)
    x_writes,         \* history: store mutations made by tool handlers
    tool_calls,      \* create_task tool: position, description and return value of each call
    prefs,           \* update_preferences: the stored user_preferences
    pref_call,       \* update_preferences: the last call, its answer and the preferences before it
    settings,        \* db.py: the rows "whitelist" and "blacklist" of table settings, as lists
    list_ops,        \* the whitelist/blacklist mutations: position, arguments, the list read, the answer
    mono,            \* time.monotonic(), seconds; -1 before the process has started
    last_track_check, \* telegram_listener.py:412 (_last_track_check), chat -> seconds, 0 = no entry
    check_starts,    \* history: chat -> the times at which a tracked-task check started
    last_inbound,    \* history: the latest persisted message routed, and whether it started a check
    live_prompts,    \* telegram_bot.py:60 (_classify_extra): messages whose prompt still has its entry
    awaiting_feedback, \* telegram_bot.py:64 (_awaiting_feedback) for the owner, NoAwaiting = no entry
    fb_rows,         \* classification_feedback rows saved by handle_free_text, in order
    fb_presses,      \* history: messages whose classification button was pressed on a live prompt
    fb_raised,       \* history: an awaited call of a press or of a save has raised
    cq,              \* table confidence_queue as _handle_urgent fills it: is_urgent, resolved, prompted
    asked_today,     \* confidence_manager.py:52 (_today_questions) as _handle_urgent counts it
    date_changed,    \* the calendar date differs from _today_date
    batch_shown,     \* history: queue ids that a batch review has presented to the owner
    batch_day,       \* history: parity of the batch reviews run
    opc,             \* concurrent handlers: upstream event -> position of its on_new_message
    oevent,          \* upstream event -> chat, sender and photo of the event, NoEvent before receipt
    insert_order,    \* history: the events in the order of their INSERT into messages
    contacts,        \* table contacts: the sender ids it holds
    contact_notes,   \* history: sender -> new-contact notices sent for the sender
    ntime,           \* time.monotonic() as resolve_chat_names reads it, seconds
    chat_names_cache, \* telegram_listener.py:160 (_chat_names_cache): the chat ids it holds
    chat_names_cache_time, \* telegram_listener.py:161 (_chat_names_cache_time)
    fetched_at,      \* history: chat id -> when its cached name was fetched from the transport
    served_age       \* history: the age of the oldest name the latest call returned from the cache

lvars == <<lpc, retry_delay, notified_down, recovering, shutting_down,
           crashes, offline_sent, outages_ended, restored_sent, waits, total_crashes,
          sleep_left>>

wvars == <<hb, known_down, alert_counts, episode_alerts, silenced,
           seen_down, scan>>

tvars == <<tasks, inflight>>

cvars == <<verdict, dpc, dargs, waited, recheck, prompts, buttons, classify_extra, pressed>>

kvars == <<create_kwargs>>

ivars == <<messages, known_contact, contact_notices, last, restarted>>

avars == <<apc, round_num, conversation, tool_calls_log, ask_result, stops, model_calls, last_content>>

rvars == <<asked_recurrence>>

qvars == <<confidence_queue, feedback>>

mvars == <<timed, now, reminded>>

uvars == <<today_questions, day, urgent_today, last_verdict>>

hvars == <<hpc, hkind, row, processed, clf, raised_at, escaped>>

bvars == <<store_writes, llm_calls, outgoing, last_update>>

svars == <<sd_pc, stop_calls>>

evars == <<epc, ask_args, attempt, backend_calls, ask_waits, ask_outcome>>

jvars == <<raw, parsed>>

xvars == <<xpc, x_round, pending, requested, tool_results, x_writes>>

yvars == <<tool_calls>>

zvars == <<prefs, pref_call>>

vvars == <<settings, list_ops>>

gvars == <<mono, last_track_check, check_starts, last_inbound>>

fvars == <<live_prompts, awaiting_feedback, fb_rows, fb_presses, fb_raised>>

nvars == <<cq, asked_today, date_changed, batch_shown, batch_day>>

ovars == <<opc, oevent, insert_order, contacts, contact_notes>>

dvars == <<ntime, chat_names_cache, chat_names_cache_time, fetched_at, served_age>>

vars == <<lvars, wvars, tvars, cvars, ivars, avars, rvars, qvars, mvars, uvars, kvars, hvars, bvars, svars, evars, jvars, xvars, yvars, zvars, vvars, gvars, fvars, nvars, ovars, dvars>>

Min(a, b) == IF a < b THEN a ELSE b
Max(a, b) == IF a > b THEN a ELSE b

(***************************************************************************)
(* main.py: the resilient listener wrapper                                 *)
(***************************************************************************)
MaxCrashes == 7            \* bound: crashes of the listener in one run of the process

SleepStep == 60            \* bound: seconds of a sleep that pass in one step
initial_retry_delay == 30  \* main.py:111
max_delay == 300           \* main.py:112

LInit ==
    /\ lpc = "loop"
    /\ retry_delay = initial_retry_delay
    /\ notified_down = FALSE
    /\ recovering = FALSE
    /\ shutting_down = FALSE
    /\ crashes = 0
    /\ offline_sent = 0
    /\ outages_ended = 0
    /\ restored_sent = 0
    /\ waits = <<>>
    /\ total_crashes = 0
    /\ sleep_left = 0

\* The listener wrapper touches none of the other components' variables.
LFrame == UNCHANGED <<wvars, tvars, cvars, ivars, avars, rvars, qvars, mvars, uvars, kvars, hvars, bvars, svars, evars, jvars, xvars, yvars, zvars, vvars, gvars, fvars, nvars, ovars, dvars>>

\* main.py:143  retry_delay = min(retry_delay * 2, max_delay)
NextDelay(d) == Min(d * 2, max_delay)

\* main.py:123-142: the except branch up to and including the start of the sleep.
\* The offline notice is sent only while notified_down is still False.
HandleCrash ==
    /\ total_crashes < MaxCrashes
    /\ total_crashes' = total_crashes + 1
    /\ crashes' = crashes + 1
    /\ offline_sent' = IF notified_down THEN offline_sent ELSE offline_sent + 1
    /\ notified_down' = TRUE
    /\ waits' = Append(waits, retry_delay)
    /\ sleep_left' = retry_delay
    /\ lpc' = "sleeping"

\* main.py:115-121: the while test, set_recovery_flag and the call of start_listener.
LoopEnter ==
    /\ LFrame
    /\ lpc = "loop"
    /\ IF shutting_down
         THEN /\ lpc' = "done"
              /\ UNCHANGED recovering
         ELSE /\ lpc' = "starting"
              /\ recovering' = (recovering \/ notified_down)
    /\ UNCHANGED <<retry_delay, notified_down, shutting_down, crashes, offline_sent,
                   outages_ended, restored_sent, waits, total_crashes, sleep_left>>

\* telegram_listener.py:137-144: client.start raises (no connection).
ConnectFails ==
    /\ LFrame
    /\ lpc = "starting"
    /\ HandleCrash
    /\ UNCHANGED <<retry_delay, recovering, shutting_down, outages_ended, restored_sent>>

\* telegram_listener.py:137-163: every client started; the restored notice is
\* sent when _recovering is set, and the flag is cleared.
Connected ==
    /\ LFrame
    /\ lpc = "starting"
    /\ lpc' = "running"
    /\ recovering' = FALSE
    /\ restored_sent' = IF recovering THEN restored_sent + 1 ELSE restored_sent
    /\ outages_ended' = IF crashes > 0 THEN outages_ended + 1 ELSE outages_ended
    /\ crashes' = 0
    /\ offline_sent' = 0
    /\ waits' = <<>>
    /\ UNCHANGED <<retry_delay, notified_down, shutting_down, total_crashes, sleep_left>>

\* telegram_listener.py:153-156: the clients started, but sending the restored
\* notice raises; the flag is already cleared and the wrapper sees a crash.
ConnectedNotifyFails ==
    /\ LFrame
    /\ lpc = "starting"
    /\ recovering
    /\ recovering' = FALSE
    /\ HandleCrash
    /\ UNCHANGED <<retry_delay, shutting_down, outages_ended, restored_sent>>

\* telegram_listener.py:162-163: run_until_disconnected raises.
ListenerCrash ==
    /\ LFrame
    /\ lpc = "running"
    /\ HandleCrash
    /\ UNCHANGED <<retry_delay, recovering, shutting_down, outages_ended, restored_sent>>

\* telegram_listener.py:163 / main.py:122: the clients were disconnected by
\* stop_listener (shutdown); start_listener returns and the wrapper breaks.
ListenerReturns ==
    /\ LFrame
    /\ lpc = "running"
    /\ shutting_down
    /\ lpc' = "done"
    /\ UNCHANGED <<retry_delay, notified_down, recovering, shutting_down, crashes,
                   offline_sent, outages_ended, restored_sent, waits, total_crashes, sleep_left>>

\* main.py:142  asyncio.sleep(retry_delay) runs on for SleepStep seconds; the
\* call takes no notice of _shutting_down.
SleepTick ==
    /\ LFrame
    /\ lpc = "sleeping"
    /\ sleep_left > 0
    /\ sleep_left' = Max(0, sleep_left - SleepStep)
    /\ UNCHANGED <<lpc, retry_delay, notified_down, recovering, shutting_down, crashes,
                   offline_sent, outages_ended, restored_sent, waits, total_crashes>>

\* main.py:142-144: the sleep ends, the delay is doubled up to max_delay.
SleepDone ==
    /\ LFrame
    /\ lpc = "sleeping"
    /\ sleep_left = 0
    /\ retry_delay' = NextDelay(retry_delay)
    /\ lpc' = "loop"
    /\ UNCHANGED <<notified_down, recovering, shutting_down, crashes, offline_sent,
                   outages_ended, restored_sent, waits, total_crashes, sleep_left>>

\* main.py:150-154: shutdown sets the flag once.
Shutdown ==
    /\ LFrame
    /\ ~shutting_down
    /\ shutting_down' = TRUE
    /\ UNCHANGED <<lpc, retry_delay, notified_down, recovering, crashes, offline_sent,
                   outages_ended, restored_sent, waits, total_crashes, sleep_left>>

LNext ==
    \/ LoopEnter
    \/ ConnectFails
    \/ Connected
    \/ ConnectedNotifyFails
    \/ ListenerCrash
    \/ ListenerReturns
    \/ SleepTick
    \/ SleepDone
    \/ Shutdown

(***************************************************************************)
(* watchdog.py                                                             *)
(***************************************************************************)
ModulesModelled == 2       \* bound: how many of the monitored modules are modelled
MaxAge == 3                \* bound: heartbeat ages are counted up to this many intervals

MAX_MISSED_HEARTBEATS == 3 \* watchdog.py:20
MAX_ALERTS == 3            \* watchdog.py:144

\* watchdog.py:12-17, cut to the modelled prefix
MONITORED_MODULES ==
    SubSeq(<<"telegram_listener", "telegram_bot", "ai_brain", "scheduler">>,
           1, Min(ModulesModelled, 4))

ModuleSet == {MONITORED_MODULES[i] : i \in 1..Len(MONITORED_MODULES)}

\* What the latest step of the watchdog did, when it was not a scan.
NoScan == [reached |-> {}, recovered |-> {}, before |-> {}]

WInit ==
    /\ hb = [m \in ModuleSet |-> -1]
    /\ known_down = {}
    /\ alert_counts = [m \in ModuleSet |-> 0]
    /\ episode_alerts = [m \in ModuleSet |-> 0]
    /\ silenced = [m \in ModuleSet |-> FALSE]
    /\ seen_down = {}
    /\ scan = NoScan

\* The watchdog touches none of the other components' variables.
WFrame == UNCHANGED <<lvars, tvars, cvars, ivars, avars, rvars, qvars, mvars, uvars, kvars, hvars, bvars, svars, evars, jvars, xvars, yvars, zvars, vvars, gvars, fvars, nvars, ovars, dvars>>

\* HasRow as it would be if a module without a row were judged like the others.
HasRowAlways(m) == TRUE

\* watchdog.py:108-120  the module has a row in health_checks
HasRow(m) == hb[m] # -1

\* watchdog.py:126  missed >= MAX_MISSED_HEARTBEATS, for a module with a row
IsDown(m) == hb[m] >= MAX_MISSED_HEARTBEATS

\* HandleModuleDown as it would be without the test of the alert budget.
HandleModuleDownNoBudget(st, m, fail) ==
    LET st1 == [st EXCEPT !.kd = @ \cup {m}]
    IN  [st1 EXCEPT !.ac[m] = @ + 1,
                    !.ea[m] = IF fail THEN @ ELSE @ + 1,
                    !.aborted = fail]

\* watchdog.py:139-174  _handle_module_down; fail: notify_owner raises.
\* st = [kd: _known_down, ac: _alert_counts, ea, sil: history, aborted: the scan ended]
HandleModuleDown(st, m, fail) ==
    LET st1 == [st EXCEPT !.kd = @ \cup {m}]
    IN  IF st1.ac[m] >= MAX_ALERTS
          THEN [st1 EXCEPT !.sil[m] = TRUE]
          ELSE [st1 EXCEPT !.ac[m] = @ + 1,
                           !.ea[m] = IF fail THEN @ ELSE @ + 1,
                           !.aborted = fail]

\* The body of the loop as it would be if the branch of a module that is up
\* again left the module in _known_down.
CheckModuleKeepsKnownDown(st, m, fail) ==
    IF st.aborted \/ ~HasRow(m) THEN st
    ELSE IF IsDown(m)
           THEN HandleModuleDown([st EXCEPT !.reached = @ \cup {m}, !.sd = @ \cup {m}],
                                 m, fail)
    ELSE IF m \in st.kd
           THEN [st EXCEPT !.ac[m] = 0, !.aborted = fail,
                           !.reached = @ \cup {m}, !.sd = @ \ {m},
                           !.rec = @ \cup {m}]
           ELSE [st EXCEPT !.reached = @ \cup {m}, !.sd = @ \ {m}]

\* watchdog.py:106-136: the body of the loop for one module.  A module without
\* a row is skipped (114-120).  History: reached = the modules the scan judged
\* up or down, sd = the modules whose latest judgement was down, rec = the
\* modules for which the recovery notice was issued (133).
CheckModule(st, m, fail) ==
    IF st.aborted \/ ~HasRow(m) THEN st
    ELSE IF IsDown(m)
           THEN HandleModuleDown([st EXCEPT !.reached = @ \cup {m}, !.sd = @ \cup {m}],
                                 m, fail)
    ELSE IF m \in st.kd
           THEN [st EXCEPT !.kd = @ \ {m}, !.ac[m] = 0, !.aborted = fail,
                           !.reached = @ \cup {m}, !.sd = @ \ {m},
                           !.rec = @ \cup {m}]
           ELSE [st EXCEPT !.reached = @ \cup {m}, !.sd = @ \ {m}]

\* watchdog.py:106: the loop over MONITORED_MODULES from index i on; the
\* notification attempted for the module at index failAt raises.
RECURSIVE CheckFrom(_, _, _)
CheckFrom(st, i, failAt) ==
    IF i > Len(MONITORED_MODULES) THEN st
    ELSE CheckFrom(CheckModule(st, MONITORED_MODULES[i], i = failAt), i + 1, failAt)

\* watchdog.py:102-136  _check_all_modules, one scan.  A module that is up at
\* the scan ends its down episode (history).
CheckAllModules ==
    /\ WFrame
    /\ \E failAt \in 0..Len(MONITORED_MODULES) :
        LET st0 == [kd |-> known_down, ac |-> alert_counts,
                    ea |-> [m \in ModuleSet |-> IF IsDown(m) THEN episode_alerts[m] ELSE 0],
                    sil |-> [m \in ModuleSet |-> IsDown(m) /\ silenced[m]],
                    sd |-> seen_down,
                    reached |-> {}, rec |-> {},
                    aborted |-> FALSE]
            st == CheckFrom(st0, 1, failAt)
        IN  /\ known_down' = st.kd
            /\ alert_counts' = st.ac
            /\ episode_alerts' = st.ea
            /\ silenced' = st.sil
            /\ seen_down' = st.sd
            /\ scan' = [reached |-> st.reached, recovered |-> st.rec,
                        before |-> seen_down]
            /\ UNCHANGED hb

\* db.py:539-548  heartbeat(module): the row is upserted with timestamp NOW().
Heartbeat(m) ==
    /\ WFrame
    /\ hb' = [hb EXCEPT ![m] = 0]
    /\ scan' = NoScan
    /\ UNCHANGED <<known_down, alert_counts, episode_alerts, silenced,
                   seen_down>>

\* One heartbeat interval passes: every row is one interval older.
IntervalPasses ==
    /\ WFrame
    /\ hb' = [m \in ModuleSet |-> IF hb[m] = -1 THEN -1 ELSE Min(hb[m] + 1, MaxAge)]
    /\ scan' = NoScan
    /\ UNCHANGED <<known_down, alert_counts, episode_alerts, silenced,
                   seen_down>>

WNext ==
    \/ CheckAllModules
    \/ \E m \in ModuleSet : Heartbeat(m)
    \/ IntervalPasses

(***************************************************************************)
(* db.py / tools.py / telegram_bot.py: the task table                      *)
(***************************************************************************)
MaxTasks == 3              \* bound: rows of the task table
MaxInFlight == 2           \* bound: concurrently running task operations

DEDUP_PREFIX == 50         \* db.py:441
TOOL_DEDUP_PREFIX == 70    \* tools.py:312

RECURSIVE Rep(_, _)
Rep(c, n) == IF n = 0 THEN <<>> ELSE <<c>> \o Rep(c, n - 1)

\* Descriptions the callers pass: short ones that contain each other, one in
\* upper case, and two of 51 characters that differ only in the last one.
Descriptions ==
    { <<"a", "b">>, <<"A", "B", "c">>,
      Rep("x", DEDUP_PREFIX) \o <<"y">>, Rep("x", DEDUP_PREFIX) \o <<"z">> }

\* str.lower() / ILIKE case folding on the characters used
LowerChar(c) == CASE c = "A" -> "a" [] c = "B" -> "b" [] OTHER -> c
Lower(s) == [i \in 1..Len(s) |-> LowerChar(s[i])]

\* s[:n]
Prefix(s, n) == SubSeq(s, 1, Min(n, Len(s)))

\* str.strip(): leading and trailing blanks removed
RECURSIVE Strip(_)
Strip(s) ==
    IF s = <<>> THEN s
    ELSE IF Head(s) = " " THEN Strip(Tail(s))
    ELSE IF s[Len(s)] = " " THEN Strip(SubSeq(s, 1, Len(s) - 1))
    ELSE s

\* needle in hay (Python), hay LIKE '%needle%' (SQL, no wildcard in needle)
Contains(hay, needle) ==
    \E i \in 0..(Len(hay) - Len(needle)) : SubSeq(hay, i + 1, i + Len(needle)) = needle

ActiveIds(ts) == {i \in 1..Len(ts) : ts[i].status = "active"}

\* db.py:438-449  has_similar_active_task: an active row whose description
\* contains (ILIKE) the stripped first 50 characters of the new description.
HasSimilarActiveTask(ts, description) ==
    LET short == Strip(Prefix(description, DEDUP_PREFIX))
    IN  /\ short # <<>>
        /\ \E i \in ActiveIds(ts) : Contains(Lower(ts[i].description), Lower(short))

\* tools.py:309-317  _find_similar_task: containment either way on the
\* lower-cased, stripped first 70 characters.
FindSimilarTask(ts, description) ==
    LET desc_lower == Prefix(Strip(Lower(description)), TOOL_DEDUP_PREFIX)
    IN  \E i \in ActiveIds(ts) :
            LET t_desc == Prefix(Strip(Lower(ts[i].description)), TOOL_DEDUP_PREFIX)
            IN  Contains(t_desc, desc_lower) \/ Contains(desc_lower, t_desc)

\* db.py:468-477  the row that create_task inserts; source_msg_id 0 is NULL.
NewTask(description, source_msg_id) ==
    [description |-> description, status |-> "active", source_msg_id |-> source_msg_id]

TInit ==
    /\ tasks = <<>>
    /\ inflight = EmptyBag

\* The task operations touch none of the other components' variables.
TFrame == UNCHANGED <<lvars, wvars, cvars, ivars, avars, rvars, qvars, mvars, uvars, kvars, hvars, bvars, svars, evars, jvars, xvars, yvars, zvars, vvars, gvars, fvars, nvars, ovars, dvars>>

\* An operation has read the table; its write is still to come.
Started(op) ==
    /\ BagCardinality(inflight) < MaxInFlight
    /\ inflight' = inflight (+) SetToBag({op})
    /\ UNCHANGED tasks

Finished(op) == inflight (-) SetToBag({op})

\* db.py:452-466  create_task up to the dedup test (callers without a test of
\* their own: cb_clf_ok, cb_clf_task).  A duplicate returns None.
CreateTask(d) ==
    /\ TFrame
    /\ ~HasSimilarActiveTask(tasks, d)
    /\ Started([op |-> "insert", d |-> d, id |-> 0])

\* tools.py:265-288  _tool_create_task: _find_similar_task, then create_task.
ToolCreateTask(d) ==
    /\ TFrame
    /\ ~FindSimilarTask(tasks, d)
    /\ Started([op |-> "db_check", d |-> d, id |-> 0])

\* db.py:463-466  the dedup test of create_task for a caller that tested before.
DbCheck(o) ==
    /\ TFrame
    /\ o.op = "db_check"
    /\ inflight' = IF HasSimilarActiveTask(tasks, o.d)
                     THEN Finished(o)
                     ELSE Finished(o) (+) SetToBag({[o EXCEPT !.op = "insert"]})
    /\ UNCHANGED tasks

\* db.py:468-477  the INSERT of create_task.
InsertTask(o) ==
    /\ TFrame
    /\ o.op = "insert"
    /\ Len(tasks) < MaxTasks
    /\ tasks' = Append(tasks, NewTask(o.d, 0))
    /\ inflight' = Finished(o)

\* tools.py:353-359, 365-370  _tool_complete_task, _tool_cancel_task look the
\* task up among the active tasks before they write.
ToolLookup(op, id) ==
    /\ TFrame
    /\ id \in ActiveIds(tasks)
    /\ Started([op |-> op, d |-> <<>>, id |-> id])

\* db.py:491-499  complete_task: UPDATE ... SET status = 'done' WHERE id = $1
CompleteTask(ts, id) ==
    [i \in 1..Len(ts) |-> IF i = id THEN [ts[i] EXCEPT !.status = "done"] ELSE ts[i]]

\* db.py:502-507  cancel_task: UPDATE ... SET status = 'cancelled' WHERE id = $1
CancelTask(ts, id) ==
    [i \in 1..Len(ts) |-> IF i = id THEN [ts[i] EXCEPT !.status = "cancelled"] ELSE ts[i]]

\* tools.py:411-416  UPDATE tasks SET description = ... WHERE id = $1
UpdateDescription(ts, id, d) ==
    [i \in 1..Len(ts) |-> IF i = id THEN [ts[i] EXCEPT !.description = d] ELSE ts[i]]

\* tools.py:361, 372  complete_task / cancel_task of a tool after its lookup.
ToolApply(o) ==
    /\ TFrame
    /\ o.op \in {"complete", "cancel"}
    /\ tasks' = IF o.op = "complete" THEN CompleteTask(tasks, o.id)
                                      ELSE CancelTask(tasks, o.id)
    /\ inflight' = Finished(o)

\* tools.py:376-422  _tool_update_task with new_description: the task must be
\* among the active tasks; the description is rewritten without a dedup test.
ToolUpdateTask(id, d) ==
    /\ TFrame
    /\ id \in ActiveIds(tasks)
    /\ tasks' = UpdateDescription(tasks, id, d)
    /\ UNCHANGED inflight

\* telegram_bot.py:482-488, 566-573, 602-609  cb_task_done, cb_track_close,
\* cb_review_done: complete_task on the id of the button.
PressDone(id) ==
    /\ TFrame
    /\ id \in 1..Len(tasks)
    /\ tasks' = CompleteTask(tasks, id)
    /\ UNCHANGED inflight

\* telegram_bot.py:491-497  cb_task_cancel: cancel_task on the id of the button.
PressCancel(id) ==
    /\ TFrame
    /\ id \in 1..Len(tasks)
    /\ tasks' = CancelTask(tasks, id)
    /\ UNCHANGED inflight

TNext ==
    \/ \E d \in Descriptions : CreateTask(d)
    \/ \E d \in Descriptions : ToolCreateTask(d)
    \/ \E o \in BagToSet(inflight) : DbCheck(o)
    \/ \E o \in BagToSet(inflight) : InsertTask(o)
    \/ \E id \in 1..MaxTasks : ToolLookup("complete", id)
    \/ \E id \in 1..MaxTasks : ToolLookup("cancel", id)
    \/ \E o \in BagToSet(inflight) : ToolApply(o)
    \/ \E id \in 1..MaxTasks, d \in Descriptions : ToolUpdateTask(id, d)
    \/ \E id \in 1..MaxTasks : PressDone(id)
    \/ \E id \in 1..MaxTasks : PressCancel(id)

(***************************************************************************)
(* confidence_manager.py, telegram_bot.py: the confidence-banded dispatch  *)
(***************************************************************************)
MaxMsgs == 1               \* bound: classified messages
DeadlineHour == 48         \* bound: the hour of the deadline a verdict names
TickSec == 150             \* bound: seconds of one step of the clock

CONFIDENCE_HIGH == 80      \* config.py:86
CONFIDENCE_LOW == 50       \* config.py:87
MEDIUM_DELAY_SEC == 300    \* confidence_manager.py:66 (_MEDIUM_DELAY_SEC)

Msgs == 1..MaxMsgs

\* Verdicts of the classifier the model runs on: the two sides of both
\* thresholds, a type of every normalisation class, two summaries of which
\* one contains the other.
Confidences == {CONFIDENCE_LOW - 1, CONFIDENCE_LOW, CONFIDENCE_HIGH, CONFIDENCE_HIGH + 1}
Types == {"task_for_me", "promise_mine", "question", "info"}
Summaries == {<<"a", "b">>, <<"A", "B", "c">>}
RecheckOutcomes == {"no_recent", "YES", "NO", "error"}
Users == {"owner", "other"}

NoVerdict == [confidence |-> -1, db_type |-> "none", is_urgent |-> FALSE]
NoExtra == [zone |-> "none", task_id |-> 0, summary |-> <<>>, db_type |-> "none"]

CInit ==
    /\ verdict = [m \in Msgs |-> NoVerdict]
    /\ dpc = [m \in Msgs |-> "none"]
    /\ dargs = [m \in Msgs |-> NoExtra]
    /\ waited = [m \in Msgs |-> 0]
    /\ recheck = [m \in Msgs |-> "none"]
    /\ prompts = [m \in Msgs |-> 0]
    /\ buttons = [m \in Msgs |-> "none"]
    /\ classify_extra = [m \in Msgs |-> NoExtra]
    /\ pressed = [m \in Msgs |-> {}]

\* confidence_manager.py:136, 143-149  deadline_str of the verdict: absent,
\* not an ISO date, an ISO date (DeadlineHour on the clock of the model)
DeadlineStrs == {"", "bad", "2026-02-18"}

\* datetime.now(timezone.utc) at the call, in hours
NowHours == {0, 5}

\* ai_brain.py:203  the types the classifier may name, the two that ask for
\* tracking included
OriginalTypes == Types \cup {"task_from_me", "promise_incoming"}

\* None of a timestamp; a timestamp t is <<t>>
Null == <<>>

\* confidence_manager.py:142-149  datetime.fromisoformat, None when there is
\* no string or the string does not parse
ParseDeadline(deadline_str) ==
    IF deadline_str = "2026-02-18" THEN <<DeadlineHour>> ELSE Null

\* confidence_manager.py:155
Track(original_type) == original_type \in {"task_from_me", "promise_incoming"}

\* AutoRemindAt as it would be without the branch on the deadline.
AutoRemindAtNoDeadline(original_type, deadline, t_now) ==
    IF original_type \in {"task_for_me", "promise_mine"} THEN <<t_now + 24>> ELSE Null

\* confidence_manager.py:158-163
AutoRemindAt(original_type, deadline, t_now) ==
    IF original_type \in {"task_for_me", "promise_mine"}
      THEN IF deadline # Null THEN <<deadline[1] - 2>> ELSE <<t_now + 24>>
      ELSE Null

\* confidence_manager.py:185-199  the keyword arguments of the HIGH-band
\* create_task call that this part of the model follows
CreateKwargs(type, deadline_str, t_now) ==
    [original_type |-> type,
     deadline |-> ParseDeadline(deadline_str),
     now |-> t_now,
     track_completion |-> Track(type),
     remind_at |-> AutoRemindAt(type, ParseDeadline(deadline_str), t_now)]

NoKwargs == [original_type |-> "none", deadline |-> Null, now |-> 0,
             track_completion |-> FALSE, remind_at |-> Null]

KInit == create_kwargs = [m \in Msgs |-> NoKwargs]

\* process_classification alone passes keyword arguments to create_task here.
PFrame == UNCHANGED <<lvars, wvars, inflight, ivars, avars, rvars, qvars, mvars, uvars, hvars, bvars, svars, evars, jvars, xvars, yvars, zvars, vvars, gvars, fvars, nvars, ovars, dvars>>

\* The dispatch touches the task table and none of the other components.
CFrame == UNCHANGED <<lvars, wvars, inflight, ivars, avars, rvars, qvars, mvars, uvars, kvars, hvars, bvars, svars, evars, jvars, xvars, yvars, zvars, vvars, gvars, fvars, nvars, ovars, dvars>>

\* confidence_manager.py:166-168  the type as the tasks table stores it
DbType(t) == IF t \in {"task_from_me", "task_for_me", "question"} THEN "task" ELSE t

\* confidence_manager.py:180  the types that make a task in the HIGH band
TaskLike(db_type) == db_type \in {"task", "promise_mine", "promise_incoming"}

\* confidence_manager.py:225  the types that make a prompt in the MEDIUM band
PromptLike(db_type) == db_type \in {"task", "promise_mine", "promise_incoming", "question"}

\* IsHigh as it would be with >= for >.
IsHighInclusive(confidence) == confidence >= CONFIDENCE_HIGH

\* confidence_manager.py:178  strictly above the HIGH threshold
IsHigh(confidence) == confidence > CONFIDENCE_HIGH

\* confidence_manager.py:223
IsMedium(confidence) == ~IsHigh(confidence) /\ confidence >= CONFIDENCE_LOW

\* db.py:452-477  create_task as one statement: the id of the new row, 0 (None)
\* for a duplicate.
CreatedId(ts, description) ==
    IF HasSimilarActiveTask(ts, description) THEN 0 ELSE Len(ts) + 1

TasksAfterCreate(ts, description, source_msg_id) ==
    IF HasSimilarActiveTask(ts, description) THEN ts
    ELSE Append(ts, NewTask(description, source_msg_id))

\* telegram_bot.py:222-265  notify_callback with a classify_* markup: the entry
\* of _classify_extra is stored, then the notice is sent; sent = FALSE is a
\* send_message that raises.
Notify(m, markup, extra, sent) ==
    /\ prompts' = [prompts EXCEPT ![m] = @ + 1]
    /\ classify_extra' = [classify_extra EXCEPT ![m] = extra]
    /\ buttons' = [buttons EXCEPT ![m] = IF sent THEN markup ELSE @]

NoNotify == UNCHANGED <<prompts, classify_extra, buttons>>

\* confidence_manager.py:109-275  process_classification of message m on the
\* verdict (type, confidence, is_urgent, summary) of the classifier.
ProcessClassification(m, type, confidence, is_urgent, summary, sent, deadline_str, t_now) ==
    /\ PFrame
    /\ verdict[m] = NoVerdict
    /\ verdict' = [verdict EXCEPT ![m] = [confidence |-> confidence,
                                          db_type |-> DbType(type),
                                          is_urgent |-> is_urgent]]
    /\ UNCHANGED <<recheck, pressed>>
    /\ IF IsHigh(confidence)
       THEN /\ UNCHANGED <<dpc, dargs, waited>>
            /\ IF TaskLike(DbType(type)) /\ ~HasSimilarActiveTask(tasks, summary)
               THEN /\ tasks' = TasksAfterCreate(tasks, summary, m)
                    /\ create_kwargs' = [create_kwargs EXCEPT ![m] =
                                            CreateKwargs(type, deadline_str, t_now)]
                    /\ Notify(m, "classify_high",
                              [zone |-> "high", task_id |-> CreatedId(tasks, summary),
                               summary |-> summary, db_type |-> DbType(type)], sent)
               ELSE UNCHANGED <<tasks, create_kwargs>> /\ NoNotify
       ELSE IF IsMedium(confidence)
       THEN /\ UNCHANGED <<tasks, create_kwargs>>
            /\ IF PromptLike(DbType(type))
               THEN IF is_urgent
                    THEN /\ UNCHANGED <<dpc, dargs, waited>>
                         /\ Notify(m, "classify_medium",
                                   [zone |-> "medium", task_id |-> 0,
                                    summary |-> summary, db_type |-> DbType(type)], sent)
                    ELSE /\ dpc' = [dpc EXCEPT ![m] = "sleeping"]
                         /\ dargs' = [dargs EXCEPT ![m] =
                                [zone |-> "medium", task_id |-> 0,
                                 summary |-> summary, db_type |-> DbType(type)]]
                         /\ UNCHANGED waited
                         /\ NoNotify
               ELSE UNCHANGED <<dpc, dargs, waited>> /\ NoNotify
       ELSE /\ UNCHANGED <<tasks, dpc, dargs, waited, create_kwargs>>
            /\ Notify(m, "classify_low",
                      [zone |-> "low", task_id |-> 0,
                       summary |-> summary, db_type |-> "none"], sent)

\* The clock: every sleeping _delayed_medium_notify has slept TickSec longer.
Tick ==
    /\ CFrame
    /\ \E m \in Msgs : dpc[m] = "sleeping" /\ waited[m] < MEDIUM_DELAY_SEC
    /\ waited' = [m \in Msgs |->
                    IF dpc[m] = "sleeping" /\ waited[m] < MEDIUM_DELAY_SEC
                    THEN waited[m] + TickSec ELSE waited[m]]
    /\ UNCHANGED <<tasks, verdict, dpc, dargs, recheck, prompts, buttons,
                   classify_extra, pressed>>

\* SleepOver as it would be without the sleep.
SleepOverAtOnce(slept) == slept >= 0

\* confidence_manager.py:77  asyncio.sleep(_MEDIUM_DELAY_SEC) returns
SleepOver(slept) == slept >= MEDIUM_DELAY_SEC

\* confidence_manager.py:93  "YES" in answer.upper(); the other outcomes are no
\* recent messages (line 81), another answer, and an exception (line 96).
Suppressed(outcome) == outcome = "YES"

\* confidence_manager.py:69-104  _delayed_medium_notify after its sleep
DelayedMediumNotify(m, outcome, sent) ==
    /\ CFrame
    /\ dpc[m] = "sleeping"
    /\ SleepOver(waited[m])
    /\ recheck' = [recheck EXCEPT ![m] = outcome]
    /\ dargs' = [dargs EXCEPT ![m] = NoExtra]
    /\ IF Suppressed(outcome)
       THEN /\ dpc' = [dpc EXCEPT ![m] = "suppressed"]
            /\ NoNotify
       ELSE /\ dpc' = [dpc EXCEPT ![m] = "notified"]
            /\ Notify(m, "classify_medium", dargs[m], sent)
    /\ UNCHANGED <<tasks, verdict, waited, pressed>>

\* telegram_bot.py:627-632, 691-696, 727-732  the start of the three button
\* handlers: only the owner is served, and the entry of the message is popped.
Served(m, user) == user = "owner" /\ classify_extra[m] # NoExtra

Pop(m, button) ==
    /\ classify_extra' = [classify_extra EXCEPT ![m] = NoExtra]
    /\ pressed' = [pressed EXCEPT ![m] = @ \cup {button}]

\* telegram_bot.py:624-685  cb_clf_ok
PressClfOk(m, user) ==
    /\ CFrame
    /\ buttons[m] # "none"
    /\ IF Served(m, user)
       THEN /\ Pop(m, "clf_ok")
            /\ tasks' = IF classify_extra[m].zone = "medium"
                        THEN TasksAfterCreate(tasks, classify_extra[m].summary, m)
                        ELSE tasks
       ELSE UNCHANGED <<tasks, classify_extra, pressed>>
    /\ UNCHANGED <<verdict, dpc, dargs, waited, recheck, prompts, buttons>>

\* telegram_bot.py:688-721  cb_clf_no
PressClfNo(m, user) ==
    /\ CFrame
    /\ buttons[m] \in {"classify_high", "classify_medium"}
    /\ IF Served(m, user)
       THEN /\ Pop(m, "clf_no")
            /\ tasks' = IF classify_extra[m].zone = "high" /\ classify_extra[m].task_id # 0
                        THEN CancelTask(tasks, classify_extra[m].task_id)
                        ELSE tasks
       ELSE UNCHANGED <<tasks, classify_extra, pressed>>
    /\ UNCHANGED <<verdict, dpc, dargs, waited, recheck, prompts, buttons>>

\* telegram_bot.py:724-768  cb_clf_task
PressClfTask(m, user) ==
    /\ CFrame
    /\ buttons[m] = "classify_low"
    /\ IF Served(m, user)
       THEN /\ Pop(m, "clf_task")
            /\ tasks' = TasksAfterCreate(tasks, classify_extra[m].summary, m)
       ELSE UNCHANGED <<tasks, classify_extra, pressed>>
    /\ UNCHANGED <<verdict, dpc, dargs, waited, recheck, prompts, buttons>>

\* A restart of the process: _classify_extra (telegram_bot.py:60) is empty
\* again and the sleeping _delayed_medium_notify coroutines are gone.
Restart ==
    /\ CFrame
    /\ \E m \in Msgs : classify_extra[m] # NoExtra \/ dpc[m] = "sleeping"
    /\ classify_extra' = [m \in Msgs |-> NoExtra]
    /\ dpc' = [m \in Msgs |-> IF dpc[m] = "sleeping" THEN "lost" ELSE dpc[m]]
    /\ dargs' = [m \in Msgs |-> NoExtra]
    /\ waited' = [m \in Msgs |-> IF dpc[m] = "sleeping" THEN 0 ELSE waited[m]]
    /\ UNCHANGED <<tasks, verdict, recheck, prompts, buttons, pressed>>

\* The deadline and the clock reach the keyword arguments of create_task only;
\* SpecAutoTask varies them.
CNext ==
    \/ \E m \in Msgs, type \in Types, confidence \in Confidences,
          is_urgent \in BOOLEAN, summary \in Summaries, sent \in BOOLEAN :
            ProcessClassification(m, type, confidence, is_urgent, summary, sent, "", 0)
    \/ Tick
    \/ \E m \in Msgs, outcome \in RecheckOutcomes, sent \in BOOLEAN :
            DelayedMediumNotify(m, outcome, sent)
    \/ \E m \in Msgs, user \in Users : PressClfOk(m, user)
    \/ \E m \in Msgs, user \in Users : PressClfNo(m, user)
    \/ \E m \in Msgs, user \in Users : PressClfTask(m, user)
    \/ Restart

\* process_classification on verdicts of every original type, with and
\* without a deadline, at two readings of the clock, for the messages that
\* have no verdict yet.
KNext ==
    \E m \in {k \in Msgs : verdict[k] = NoVerdict} :
        \E type \in OriginalTypes, confidence \in Confidences,
           is_urgent \in BOOLEAN, summary \in Summaries, sent \in BOOLEAN,
           deadline_str \in DeadlineStrs, t_now \in NowHours :
            ProcessClassification(m, type, confidence, is_urgent, summary, sent,
                                  deadline_str, t_now)

(***************************************************************************)
(* telegram_listener.py: on_new_message                                    *)
(***************************************************************************)
MaxRows == 2               \* bound: upstream messages (keys) in the messages table

MIN_CLASSIFY_LEN == 5      \* telegram_listener.py:345  len(text) > 5
MEDIA_TEXT_LEN == 7        \* telegram_listener.py:279  "[photo]", the shortest "[<media>]"
VISION_TEXT_LEN == 10      \* telegram_listener.py:293  "[photo: d]", the shortest description

\* The chats of the model: a private chat with a person, the same in the
\* whitelist, the owner's chat with the bot, a whitelisted group, a
\* whitelisted channel, a group outside the whitelist.
Chats == {"dm", "dm_wl", "bot", "group_wl", "channel_wl", "group"}
Accounts == {"acc1", "acc2"}
TextLens == {0, MIN_CLASSIFY_LEN, MIN_CLASSIFY_LEN + 1}
Contents == {c \in [textlen : TextLens, photo : BOOLEAN] : c.photo => c.textlen = 0}

\* telegram_listener.py:227-229  _is_private_chat
IsPrivate(chat) == chat \in {"dm", "dm_wl", "bot"}

\* telegram_listener.py:246-247  chat_id in whitelist
InWhitelist(chat) == chat \in {"dm_wl", "group_wl", "channel_wl"}

\* Who can write in which chat, and the upstream ids of the messages there.
SendersOf(chat) ==
    CASE chat \in {"dm_wl"}       -> {"person", "owner"}
      [] chat = "bot"             -> {"owner", "jarvis_bot"}
      [] chat = "channel_wl"      -> {"channel"}
      [] chat = "group_wl"        -> {"person", "owner", "channel"}
      [] OTHER                    -> {"person"}
MsgIdsOf(chat) == IF chat = "dm" THEN {1, 2} ELSE {1}

Events ==
    {e \in [telegram_msg_id : {1, 2}, chat : Chats,
            sender : {"person", "owner", "jarvis_bot", "channel"},
            kind : {"message", "sticker"}, textlen : TextLens,
            photo : BOOLEAN, blacklisted : BOOLEAN] :
        /\ e.telegram_msg_id \in MsgIdsOf(e.chat)
        /\ e.sender \in SendersOf(e.chat)
        /\ [textlen |-> e.textlen, photo |-> e.photo] \in Contents
        \* a sticker and a blacklisted sender are tried on one message
        /\ (e.kind = "sticker" \/ e.blacklisted) =>
               /\ e.chat = "dm" /\ e.telegram_msg_id = 1 /\ e.sender = "person"
               /\ e.textlen > MIN_CLASSIFY_LEN /\ ~e.photo}

\* telegram_listener.py:236-241, 253, 264-270, 276-283  the filters before
\* save_message: TRUE when the event gets as far as save_message.
PassesFilters(e) ==
    /\ e.kind = "message"
    /\ InWhitelist(e.chat) \/ IsPrivate(e.chat)
    /\ ~(IsPrivate(e.chat) /\ e.sender = "jarvis_bot")
    /\ ~e.blacklisted
    /\ e.textlen > 0 \/ e.photo

\* telegram_listener.py:276-296  the length of the text that is stored
StoredLen(e, vision) ==
    IF e.textlen > 0 THEN e.textlen
    ELSE IF vision THEN VISION_TEXT_LEN
    ELSE MEDIA_TEXT_LEN

Key(r) == <<r.telegram_msg_id, r.chat>>

RowsOf(ms, key) == {r \in BagToSet(ms) : Key(r) = key}

StoredKeys(ms) == {Key(r) : r \in BagToSet(ms)}

\* Inserted as it would be without the ON CONFLICT clause.
InsertedAlways(ms, key) == TRUE

\* db.py:130-153  INSERT ... ON CONFLICT (telegram_msg_id, chat_id) DO NOTHING
\* RETURNING id: a row comes back only when the key was not stored.
Inserted(ms, key) == RowsOf(ms, key) = {}

NoDelivery == [replay |-> FALSE, account |-> "none"]

IInit ==
    /\ messages = EmptyBag
    /\ known_contact = FALSE
    /\ contact_notices = 0
    /\ last = NoDelivery
    /\ restarted = FALSE

\* The ingest handler touches none of the other components' variables.
IFrame == UNCHANGED <<lvars, wvars, tvars, cvars, avars, rvars, qvars, mvars, uvars, kvars, hvars, bvars, svars, evars, jvars, xvars, yvars, zvars, vvars, gvars, fvars, nvars, ovars, dvars>>

\* telegram_listener.py:318  the owner's chat with the bot
IsBotChat(e) == IsPrivate(e.chat) /\ (e.sender = "jarvis_bot" \/ e.chat = "bot")

\* telegram_listener.py:324-325  the new-contact step runs for this event
ChecksContact(e) ==
    /\ InWhitelist(e.chat)
    /\ e.sender # "owner"
    /\ ~IsBotChat(e)
    /\ e.sender # "channel"

\* ShouldClassify as it would be without the test of the bot's chat.
ShouldClassifyBotChatToo(e, len) == IsPrivate(e.chat) /\ len > MIN_CLASSIFY_LEN

\* telegram_listener.py:345  the routing test
ShouldClassify(e, len) == IsPrivate(e.chat) /\ ~IsBotChat(e) /\ len > MIN_CLASSIFY_LEN

\* telegram_listener.py:337-354  what becomes of the row when the handler
\* gets to the routing: "classified" = handed to the classifier by
\* _classify_and_mark and marked processed, "processed" = marked only.
Routed(e, len) ==
    IF e.sender = "channel" THEN "processed"
    ELSE IF ShouldClassify(e, len) THEN "classified"
    ELSE "processed"

\* The ways the handler can end after the insert: it runs to its end; the
\* contact lookup raises (telegram_listener.py:326, 328); the new-contact
\* notice raises after the contact was stored (line 330).  What is raised is
\* caught and logged at line 356.
Outcomes == {"ok", "lookup_raises", "notice_raises"}

\* telegram_listener.py:287  the photo of this event is described
VisionOf(e) == IF e.photo /\ IsPrivate(e.chat) /\ e.textlen = 0 THEN BOOLEAN ELSE {FALSE}

\* telegram_listener.py:232-357  on_new_message for event e on an account.
OnNewMessage(e, account, vision, outcome) ==
    /\ IFrame
    /\ last' = [replay |-> RowsOf(messages, <<e.telegram_msg_id, e.chat>>) # {},
                account |-> account]
    /\ IF PassesFilters(e) /\ Inserted(messages, <<e.telegram_msg_id, e.chat>>)
       THEN LET len == StoredLen(e, vision)
                contact == ChecksContact(e)
                raised == contact /\ (\/ outcome = "lookup_raises"
                                      \/ outcome = "notice_raises" /\ ~known_contact)
                status == IF raised THEN "unprocessed" ELSE Routed(e, len)
            IN  /\ Cardinality(StoredKeys(messages) \cup {<<e.telegram_msg_id, e.chat>>}) <= MaxRows
                /\ outcome # "ok" => raised
                /\ messages' = messages (+) SetToBag({[telegram_msg_id |-> e.telegram_msg_id,
                                                       chat |-> e.chat, len |-> len,
                                                       status |-> status]})
                /\ restarted' = FALSE
                /\ known_contact' = (known_contact \/ (contact /\ outcome # "lookup_raises"))
                /\ contact_notices' = IF contact /\ ~known_contact /\ ~raised
                                      THEN contact_notices + 1 ELSE contact_notices
       ELSE /\ outcome = "ok"
            /\ ~vision
            /\ UNCHANGED <<messages, restarted, known_contact, contact_notices>>

\* The process is started again: the table stays, the handlers start afresh.
IngestRestart ==
    /\ IFrame
    /\ messages # EmptyBag
    /\ ~restarted
    /\ restarted' = TRUE
    /\ last' = NoDelivery
    /\ UNCHANGED <<messages, known_contact, contact_notices>>

INext ==
    \/ \E e \in Events, account \in Accounts :
         \E vision \in VisionOf(e), outcome \in Outcomes :
            OnNewMessage(e, account, vision, outcome)
    \/ IngestRestart

(***************************************************************************)
(* ai_brain.py: ask_with_tools                                             *)
(***************************************************************************)
max_tool_rounds == 5       \* ai_brain.py:501

\* ai_brain.py:618 and 609, the two fixed texts
LIMIT_TEXT == <<"(limit exceeded, rephrase)">>
NO_ANSWER_TEXT == <<"(no answer from the model)">>

NoResult == <<"(none)">>

StopReasons == {"end_turn", "tool_use", "max_tokens"}

TextBlock(t) == [type |-> "text", text |-> t, name |-> ""]
ToolUseBlock(n) == [type |-> "tool_use", text |-> "", name |-> n]

\* response.content: the block lists a response of the model can carry
ResponseContents ==
    { <<>>,
      <<TextBlock("a")>>,
      <<TextBlock("a"), TextBlock("b")>>,
      <<ToolUseBlock("list_tasks")>>,
      <<TextBlock("a"), ToolUseBlock("create_task")>>,
      <<ToolUseBlock("list_tasks"), ToolUseBlock("create_task")>> }

\* ai_brain.py:553-559  "\n".join(block.text for the text blocks)
RECURSIVE JoinText(_)
JoinText(content) ==
    IF content = <<>> THEN <<>>
    ELSE LET rest == JoinText(Tail(content))
         IN  IF Head(content).type # "text" THEN rest
             ELSE IF rest = <<>> THEN <<Head(content).text>>
             ELSE <<Head(content).text, "\n">> \o rest

\* ai_brain.py:574-592  the names of the tool_use blocks, in the order emitted
RECURSIVE ToolNames(_)
ToolNames(content) ==
    IF content = <<>> THEN <<>>
    ELSE IF Head(content).type = "tool_use"
           THEN <<Head(content).name>> \o ToolNames(Tail(content))
           ELSE ToolNames(Tail(content))

AInit ==
    /\ apc = "idle"
    /\ round_num = 0
    /\ conversation = <<>>
    /\ tool_calls_log = <<>>
    /\ ask_result = NoResult
    /\ stops = <<>>
    /\ model_calls = 0
    /\ last_content = <<>>

\* ask_with_tools touches none of the other components' variables; what the
\* tools do to the task table is ToolCreateTask, ToolApply and ToolUpdateTask.
AFrame == UNCHANGED <<lvars, wvars, tvars, cvars, ivars, rvars, qvars, mvars, uvars, kvars, hvars, bvars, svars, evars, jvars, xvars, yvars, zvars, vvars, gvars, fvars, nvars, ovars, dvars>>

\* telegram_bot.py:1471  handle_free_text calls ask_with_tools;
\* ai_brain.py:528-534  the locals before the first round.
AskStart ==
    /\ AFrame
    /\ apc = "idle"
    /\ apc' = "loop"
    /\ round_num' = 0
    /\ conversation' = <<>>
    /\ tool_calls_log' = <<>>
    /\ ask_result' = NoResult
    /\ stops' = <<>>
    /\ model_calls' = 0
    /\ last_content' = <<>>

\* ai_brain.py:534  range(max_tool_rounds) has no further value after round r
\* as it would be with one round more.
ExhaustedOneLater(r) == r + 1 >= max_tool_rounds + 1

\* ai_brain.py:534  range(max_tool_rounds) has no further value after round r
Exhausted(r) == r + 1 >= max_tool_rounds

\* ai_brain.py:534-612  one round: the call of the model and what follows it,
\* up to the next call or the return (614-621 when the loop is exhausted).
AskRound(stop_reason, content) ==
    /\ AFrame
    /\ apc = "loop"
    /\ model_calls' = model_calls + 1
    /\ stops' = Append(stops, stop_reason)
    /\ last_content' = content
    /\ IF stop_reason = "end_turn"
         THEN /\ apc' = "returned"
              /\ ask_result' = JoinText(content)
              /\ UNCHANGED <<round_num, conversation, tool_calls_log>>
       ELSE IF stop_reason = "tool_use"
         THEN /\ conversation' = conversation \o <<"assistant", "user">>
              /\ tool_calls_log' = tool_calls_log \o ToolNames(content)
              /\ IF Exhausted(round_num)
                   THEN /\ apc' = "returned"
                        /\ ask_result' = LIMIT_TEXT
                        /\ UNCHANGED round_num
                   ELSE /\ apc' = "loop"
                        /\ round_num' = round_num + 1
                        /\ UNCHANGED ask_result
         ELSE /\ apc' = "returned"
              /\ ask_result' = IF JoinText(content) = <<>> THEN NO_ANSWER_TEXT
                                                           ELSE JoinText(content)
              /\ UNCHANGED <<round_num, conversation, tool_calls_log>>

\* ai_brain.py:535  messages.create raises; the exception leaves ask_with_tools.
AskRaises ==
    /\ AFrame
    /\ apc = "loop"
    /\ apc' = "raised"
    /\ model_calls' = model_calls + 1
    /\ UNCHANGED <<round_num, conversation, tool_calls_log, ask_result, stops, last_content>>

\* telegram_bot.py:1476-1502  handle_free_text takes the result (or the
\* exception) and ends.
AskDone ==
    /\ AFrame
    /\ apc \in {"returned", "raised"}
    /\ apc' = "idle"
    /\ UNCHANGED <<round_num, conversation, tool_calls_log, ask_result, stops,
                   model_calls, last_content>>

\* ai_brain.py:535  the awaited call of the model ends: with a response or
\* with an exception.
AskResponse ==
    \/ \E stop_reason \in StopReasons, content \in ResponseContents :
          AskRound(stop_reason, content)
    \/ AskRaises

ANext ==
    \/ AskStart
    \/ AskResponse
    \/ AskDone

(***************************************************************************)
(* tools.py / db.py: recurring tasks                                       *)
(***************************************************************************)
\* tools.py:67-71  the values of the parameter, "" when it is absent
Recurrences == {"", "daily", "weekly", "monthly"}

RInit == asked_recurrence = <<>>

RFrame == UNCHANGED <<lvars, wvars, cvars, ivars, avars, qvars, mvars, uvars, kvars, hvars, bvars, svars, evars, jvars, xvars, yvars, zvars, vvars, gvars, fvars, nvars, ovars, dvars>>

\* tools.py:239-306  _tool_create_task, from the dedup lookup to the INSERT
\* of create_task, for a call that carries a recurrence.  The INSERT of
\* db.py:471-475 has no column for it; what the call passed on is kept as
\* history.
ToolCreateRecurring(d, r) ==
    /\ RFrame
    /\ ~FindSimilarTask(tasks, d)
    /\ ~HasSimilarActiveTask(tasks, d)
    /\ Len(tasks) < MaxTasks
    /\ tasks' = Append(tasks, NewTask(d, 0))
    /\ asked_recurrence' = Append(asked_recurrence, r)
    /\ UNCHANGED inflight

\* Every caller that completes a task goes through complete_task of db.py;
\* the button stands for them here.
RNext ==
    \/ \E d \in Descriptions, r \in Recurrences : ToolCreateRecurring(d, r)
    \/ \E id \in 1..MaxTasks : PressDone(id)

(***************************************************************************)
(* db.py / confidence_manager.py / telegram_bot.py: the confidence queue   *)
(***************************************************************************)
MaxQueue == 2              \* bound: rows of confidence_queue
MaxFeedback == 3           \* bound: rows of classification_feedback

\* text[:150] of the queued messages
Previews == { <<"a", "b">>, Rep("x", DEDUP_PREFIX) \o <<"y">> }

PredictedTypes == {"task", "question"}

QInit ==
    /\ confidence_queue = <<>>
    /\ feedback = <<>>

QFrame == UNCHANGED <<lvars, wvars, inflight, cvars, ivars, avars, rvars, mvars, uvars, kvars, hvars, bvars, svars, evars, jvars, xvars, yvars, zvars, vvars, gvars, fvars, nvars, ovars, dvars>>

\* db.py:562-582  add_to_confidence_queue: INSERT ... RETURNING id.  Its one
\* caller in this source is _handle_urgent (confidence_manager.py:293, 313).
\* The message id of the model is the row id.
AddToConfidenceQueue(text_preview, predicted_type) ==
    /\ QFrame
    /\ Len(confidence_queue) < MaxQueue
    /\ confidence_queue' = Append(confidence_queue,
           [message_id |-> Len(confidence_queue) + 1, text_preview |-> text_preview,
            predicted_type |-> predicted_type, resolved |-> FALSE])
    /\ UNCHANGED <<tasks, feedback>>

\* st = [q: confidence_queue, fb: classification_feedback, ts: tasks]
\* db.py:597-614  resolve_confidence: UPDATE ... SET resolved = TRUE, then the
\* INSERT into classification_feedback when the row exists.
ResolveConfidence(st, queue_id, actual_type) ==
    IF queue_id \notin 1..Len(st.q) THEN st
    ELSE [st EXCEPT !.q[queue_id].resolved = TRUE,
                    !.fb = Append(@, [message_id |-> st.q[queue_id].message_id,
                                      predicted_type |-> st.q[queue_id].predicted_type,
                                      actual_type |-> actual_type])]

\* confidence_manager.py:393-423  _resolve_and_create
ResolveAndCreate(st, queue_id, actual_type) ==
    LET st1 == ResolveConfidence(st, queue_id, actual_type)
    IN  IF queue_id \notin 1..Len(st.q) THEN st1
        ELSE LET desc == st.q[queue_id].text_preview
             IN  IF HasSimilarActiveTask(st1.ts, desc) THEN st1
                 ELSE [st1 EXCEPT !.ts = Append(@, NewTask(desc, st.q[queue_id].message_id))]

\* confidence_manager.py:384-390  resolve_single
ResolveSingleOf(st, queue_id, actual_type) ==
    IF actual_type \in {"task", "promise_mine", "promise_incoming"}
      THEN ResolveAndCreate(st, queue_id, actual_type)
      ELSE ResolveConfidence(st, queue_id, actual_type)

\* confidence_manager.py:370-381  the loops of resolve_batch_all_tasks and
\* resolve_batch_nothing over queue_ids
RECURSIVE ResolveBatchOf(_, _, _)
ResolveBatchOf(st, queue_ids, all_tasks) ==
    IF queue_ids = <<>> THEN st
    ELSE ResolveBatchOf(IF all_tasks THEN ResolveAndCreate(st, Head(queue_ids), "task")
                                     ELSE ResolveConfidence(st, Head(queue_ids), "info"),
                        Tail(queue_ids), all_tasks)

QState == [q |-> confidence_queue, fb |-> feedback, ts |-> tasks]

\* The tables after a handler, within the rows the model holds.
QWrite(st) ==
    /\ Len(st.fb) <= MaxFeedback
    /\ Len(st.ts) <= MaxTasks
    /\ confidence_queue' = st.q
    /\ feedback' = st.fb
    /\ tasks' = st.ts

\* telegram_bot.py:500-515  cb_conf_yes / cb_conf_no: resolve_single with
\* "task" / "info" on the id of the button.
ResolveSingle(queue_id, actual_type) ==
    /\ QFrame
    /\ queue_id \in 1..Len(confidence_queue)
    /\ QWrite(ResolveSingleOf(QState, queue_id, actual_type))

\* The ids a batch_confidence keyboard carries: rows of the table, ascending.
BatchIds ==
    { <<i>> : i \in 1..Len(confidence_queue) } \cup
    { <<p[1], p[2]>> : p \in { r \in (1..Len(confidence_queue)) \X (1..Len(confidence_queue)) :
                                 r[1] < r[2] } }

\* telegram_bot.py:518-524  cb_batch_all
ResolveBatchAllTasks(queue_ids) ==
    /\ QFrame
    /\ QWrite(ResolveBatchOf(QState, queue_ids, TRUE))

\* telegram_bot.py:527-533  cb_batch_none
ResolveBatchNothing(queue_ids) ==
    /\ QFrame
    /\ QWrite(ResolveBatchOf(QState, queue_ids, FALSE))

QNext ==
    \/ \E p \in Previews, t \in PredictedTypes : AddToConfidenceQueue(p, t)
    \/ \E queue_id \in 1..MaxQueue, actual_type \in {"task", "info"} :
          ResolveSingle(queue_id, actual_type)
    \/ \E queue_ids \in BatchIds : ResolveBatchAllTasks(queue_ids)
    \/ \E queue_ids \in BatchIds : ResolveBatchNothing(queue_ids)

(***************************************************************************)
(* scheduler.py: check_timed_reminders                                     *)
(***************************************************************************)
MaxTimed == 2              \* bound: tasks that carry a remind_at
MaxMinute == 2             \* bound: minutes the clock runs
MaxReminded == 2           \* bound: notifications counted per task

MInit ==
    /\ timed = <<>>
    /\ now = 0
    /\ reminded = <<>>

MFrame == UNCHANGED <<lvars, wvars, tvars, cvars, ivars, avars, rvars, qvars, uvars, kvars, hvars, bvars, svars, evars, jvars, xvars, yvars, zvars, vvars, gvars, fvars, nvars, ovars, dvars>>

\* create_task with a remind_at (tools.py:279-288, confidence_manager.py:185-199):
\* an active row with remind_at set and remind_at_sent NULL.
AddTimedTask(remind_at) ==
    /\ MFrame
    /\ Len(timed) < MaxTimed
    /\ timed' = Append(timed, [status |-> "active", remind_at |-> remind_at,
                               remind_at_sent |-> FALSE])
    /\ reminded' = Append(reminded, 0)
    /\ UNCHANGED now

\* db.py:491-499  complete_task on a task that carries a remind_at
TimedDone(id) ==
    /\ MFrame
    /\ id \in 1..Len(timed)
    /\ timed[id].status = "active"
    /\ timed' = [timed EXCEPT ![id].status = "done"]
    /\ UNCHANGED <<now, reminded>>

\* One minute passes (scheduler.py:410, CronTrigger(minute="*")).
MinutePasses ==
    /\ MFrame
    /\ now < MaxMinute
    /\ now' = now + 1
    /\ UNCHANGED <<timed, reminded>>

\* get_timed_reminders: the ids of the active tasks with remind_at <= now and
\* remind_at_sent NULL, in the order of the ids.
GetTimedReminders(ts, t) ==
    LET due == {i \in 1..Len(ts) : /\ ts[i].status = "active"
                                   /\ ts[i].remind_at <= t
                                   /\ ~ts[i].remind_at_sent}
        RECURSIVE Asc(_, _)
        Asc(i, acc) == IF i > Len(ts) THEN acc
                       ELSE Asc(i + 1, IF i \in due THEN Append(acc, i) ELSE acc)
    IN  Asc(1, <<>>)

\* mark_reminder_sent: remind_at_sent = now for the task.
MarkReminderSent(ts, id) == [ts EXCEPT ![id].remind_at_sent = TRUE]

\* The body of the loop as it would be with the stamp written before the
\* notification.
RemindOneStampFirst(st, id, fail) ==
    IF st.aborted THEN st
    ELSE IF fail = "mark" THEN [st EXCEPT !.aborted = TRUE]
    ELSE IF fail = "notify"
           THEN [st EXCEPT !.ts = MarkReminderSent(@, id), !.aborted = TRUE]
    ELSE [st EXCEPT !.ts = MarkReminderSent(@, id),
                    !.rem[id] = Min(@ + 1, MaxReminded)]

\* scheduler.py:209-236  the body of the loop for one task: notify_owner, then
\* mark_reminder_sent; fail names the call of this iteration that raises.
\* st = [ts: tasks, rem: reminded, aborted: the exception left the loop (237)]
RemindOne(st, id, fail) ==
    IF st.aborted THEN st
    ELSE IF fail = "notify" THEN [st EXCEPT !.aborted = TRUE]
    ELSE IF fail = "mark"
           THEN [st EXCEPT !.rem[id] = Min(@ + 1, MaxReminded), !.aborted = TRUE]
    ELSE [st EXCEPT !.rem[id] = Min(@ + 1, MaxReminded),
                    !.ts = MarkReminderSent(@, id)]

\* scheduler.py:209  the loop over the rows from position k on; the call
\* failKind of the iteration at position failAt raises.
RECURSIVE RemindFrom(_, _, _, _, _)
RemindFrom(st, ids, k, failAt, failKind) ==
    IF k > Len(ids) THEN st
    ELSE RemindFrom(RemindOne(st, ids[k], IF k = failAt THEN failKind ELSE "none"),
                    ids, k + 1, failAt, failKind)

\* scheduler.py:205-238  check_timed_reminders, one run of the per-minute job.
CheckTimedReminders(failAt, failKind) ==
    /\ MFrame
    /\ LET ids == GetTimedReminders(timed, now)
           st == RemindFrom([ts |-> timed, rem |-> reminded, aborted |-> FALSE],
                            ids, 1, failAt, failKind)
       IN  /\ ids # <<>>
           /\ failAt <= Len(ids)
           /\ timed' = st.ts
           /\ reminded' = st.rem
    /\ UNCHANGED now

MNext ==
    \/ \E remind_at \in 0..MaxMinute : AddTimedTask(remind_at)
    \/ \E id \in 1..MaxTimed : TimedDone(id)
    \/ MinutePasses
    \/ \E failAt \in 0..MaxTimed, failKind \in {"notify", "mark"} :
          CheckTimedReminders(failAt, failKind)

(***************************************************************************)
(* confidence_manager.py: the urgent prompts of a day                      *)
(***************************************************************************)
MaxDay == 1                \* bound: days the calendar advances

CONFIDENCE_DAILY_LIMIT == 10   \* config.py:89

UInit ==
    /\ today_questions = 0
    /\ day = 0
    /\ urgent_today = 0
    /\ last_verdict = [type |-> "none", confidence |-> -1, is_urgent |-> FALSE]

UFrame == UNCHANGED <<lvars, wvars, tvars, cvars, ivars, avars, rvars, qvars, mvars, kvars, hvars, bvars, svars, evars, jvars, xvars, yvars, zvars, vvars, gvars, fvars, nvars, ovars, dvars>>

\* confidence_manager.py:223-247  the verdict takes the branch that notifies
\* the owner at once with the classify_medium prompt
UrgentPromptNow(type, confidence, is_urgent) ==
    IsMedium(confidence) /\ PromptLike(DbType(type)) /\ is_urgent

\* confidence_manager.py:109-275  process_classification, as far as the urgent
\* prompts of the day go: the branch of line 246 calls notify_owner and
\* neither _handle_urgent nor _reset_daily_counter, so _today_questions is
\* not written and nothing is put into the confidence queue.  The history
\* counter stops one above the limit.
ProcessUrgentVerdict(type, confidence, is_urgent) ==
    /\ UFrame
    /\ urgent_today <= CONFIDENCE_DAILY_LIMIT
    /\ urgent_today' = IF UrgentPromptNow(type, confidence, is_urgent)
                         THEN urgent_today + 1 ELSE urgent_today
    /\ last_verdict' = [type |-> type, confidence |-> confidence, is_urgent |-> is_urgent]
    /\ UNCHANGED <<today_questions, day>>

\* Midnight: the next calendar day begins.
NextDay ==
    /\ UFrame
    /\ day < MaxDay
    /\ day' = day + 1
    /\ urgent_today' = 0
    /\ UNCHANGED <<today_questions, last_verdict>>

UNext ==
    \/ \E type \in Types, confidence \in Confidences, is_urgent \in BOOLEAN :
          ProcessUrgentVerdict(type, confidence, is_urgent)
    \/ NextDay

(***************************************************************************)
(* telegram_listener.py: on_new_message and _classify_and_mark, by steps   *)
(***************************************************************************)
MaxEvents == 2             \* bound: upstream events whose handlers overlap

HEvents == 1..MaxEvents

\* What the routing of telegram_listener.py:324-354 reads of an event: the
\* contact step runs (whitelisted chat, sender not the owner), the row goes
\* to the classifier, the sender is the owner.
HKinds ==
    {k \in [contact : BOOLEAN, classify : BOOLEAN, owner : BOOLEAN] :
        k.owner => ~k.contact}

NoKind == [contact |-> FALSE, classify |-> FALSE, owner |-> TRUE]

\* What a step can raise.  telegram_listener.py:356 and 446 name Exception;
\* every failure of a store, transport or LLM call is one.
Raisable == {"Exception"}

\* telegram_listener.py:356  except Exception
CaughtByHandler(exc) == exc = "Exception"

HInit ==
    /\ hpc = [m \in HEvents |-> "new"]
    /\ hkind = [m \in HEvents |-> NoKind]
    /\ row = [m \in HEvents |-> FALSE]
    /\ processed = [m \in HEvents |-> FALSE]
    /\ clf = [m \in HEvents |-> "none"]
    /\ raised_at = [m \in HEvents |-> {}]
    /\ escaped = [m \in HEvents |-> FALSE]

HFrame == UNCHANGED <<lvars, wvars, tvars, cvars, ivars, avars, rvars, qvars, mvars, uvars, kvars, bvars, svars, evars, jvars, xvars, yvars, zvars, vvars, gvars, fvars, nvars, ovars, dvars>>

\* telegram_listener.py:356-357  a step of the handler of m raises: the except
\* clause of on_new_message logs what it catches and the handler is over.
Raise(m, step) ==
    /\ hpc' = [hpc EXCEPT ![m] = "done"]
    /\ raised_at' = [raised_at EXCEPT ![m] = @ \cup {step}]
    /\ escaped' = [escaped EXCEPT ![m] = \E exc \in Raisable : ~CaughtByHandler(exc)]

\* telegram_listener.py:233-314  the handler of a new event up to save_message:
\* the row is inserted with processed = FALSE, or one of the calls before or
\* the insert itself raises.
HSave(m, kind, ok) ==
    /\ HFrame
    /\ hpc[m] = "new"
    /\ hkind' = [hkind EXCEPT ![m] = kind]
    /\ IF ok
       THEN /\ row' = [row EXCEPT ![m] = TRUE]
            /\ hpc' = [hpc EXCEPT ![m] = IF kind.contact THEN "saved" ELSE "route"]
            /\ UNCHANGED <<raised_at, escaped>>
       ELSE /\ Raise(m, "before_save")
            /\ UNCHANGED row
    /\ UNCHANGED <<processed, clf>>

\* telegram_listener.py:324-334  the new-contact step
HContact(m, ok) ==
    /\ HFrame
    /\ hpc[m] = "saved"
    /\ IF ok
       THEN hpc' = [hpc EXCEPT ![m] = "route"] /\ UNCHANGED <<raised_at, escaped>>
       ELSE Raise(m, "contact")
    /\ UNCHANGED <<hkind, row, processed, clf>>

\* telegram_listener.py:337-339, 345, 353-354  the routing: the row goes to
\* _classify_and_mark, or it is marked processed at once.
HRoute(m, ok) ==
    /\ HFrame
    /\ hpc[m] = "route"
    /\ IF hkind[m].classify
       THEN /\ ok
            /\ hpc' = [hpc EXCEPT ![m] = "classifying"]
            /\ clf' = [clf EXCEPT ![m] = "running"]
            /\ UNCHANGED <<processed, raised_at, escaped>>
       ELSE /\ UNCHANGED clf
            /\ IF ok
               THEN /\ processed' = [processed EXCEPT ![m] = TRUE]
                    /\ hpc' = [hpc EXCEPT ![m] = "done"]
                    /\ UNCHANGED <<raised_at, escaped>>
               ELSE /\ Raise(m, "mark")
                    /\ UNCHANGED processed
    /\ UNCHANGED <<hkind, row>>

\* HClassifyEnds as it would be without the except clause of line 446 and the
\* finally clause: what the classifier raises goes to the handler.
HClassifyEndsNoFinally(m, outcome) ==
    /\ HFrame
    /\ hpc[m] = "classifying"
    /\ clf' = [clf EXCEPT ![m] = outcome]
    /\ IF outcome = "raised"
       THEN Raise(m, "classify")
       ELSE hpc' = [hpc EXCEPT ![m] = "finally"] /\ UNCHANGED <<raised_at, escaped>>
    /\ UNCHANGED <<hkind, row, processed>>

\* telegram_listener.py:440-447  the classifier call returns or raises; what it
\* raises is logged and the finally clause is next either way.
HClassifyEnds(m, outcome) ==
    /\ HFrame
    /\ hpc[m] = "classifying"
    /\ clf' = [clf EXCEPT ![m] = outcome]
    /\ hpc' = [hpc EXCEPT ![m] = "finally"]
    /\ raised_at' = [raised_at EXCEPT ![m] =
                        IF outcome = "raised" THEN @ \cup {"classify"} ELSE @]
    /\ UNCHANGED <<hkind, row, processed, escaped>>

\* MarkReady as it would be with the mark ahead of the classifier's end.
MarkReadyEarly(m) == hpc[m] \in {"classifying", "finally"}

\* telegram_listener.py:448-449  the mark stands in the finally clause
MarkReady(m) == hpc[m] = "finally"

\* telegram_listener.py:448-452  mark_message_processed in the finally clause,
\* then the check of the tracked tasks when the sender is not the owner.
HMark(m, ok) ==
    /\ HFrame
    /\ MarkReady(m)
    /\ IF ok
       THEN /\ processed' = [processed EXCEPT ![m] = TRUE]
            /\ hpc' = [hpc EXCEPT ![m] =
                         IF hpc[m] = "classifying" THEN "classifying"
                         ELSE IF hkind[m].owner THEN "done" ELSE "tracked"]
            /\ UNCHANGED <<raised_at, escaped>>
       ELSE /\ Raise(m, "mark")
            /\ UNCHANGED processed
    /\ UNCHANGED <<hkind, row, clf>>

\* telegram_listener.py:351-352, 415-433  _check_response_to_tracked
HTracked(m, ok) ==
    /\ HFrame
    /\ hpc[m] = "tracked"
    /\ IF ok
       THEN hpc' = [hpc EXCEPT ![m] = "done"] /\ UNCHANGED <<raised_at, escaped>>
       ELSE Raise(m, "tracked")
    /\ UNCHANGED <<hkind, row, processed, clf>>

HMarkStep == \E m \in HEvents, ok \in BOOLEAN : HMark(m, ok)

HNext ==
    \/ \E m \in HEvents, kind \in HKinds, ok \in BOOLEAN : HSave(m, kind, ok)
    \/ \E m \in HEvents, ok \in BOOLEAN : HContact(m, ok)
    \/ \E m \in HEvents, ok \in BOOLEAN : HRoute(m, ok)
    \/ \E m \in HEvents, outcome \in {"returned", "raised"} : HClassifyEnds(m, outcome)
    \/ HMarkStep
    \/ \E m \in HEvents, ok \in BOOLEAN : HTracked(m, ok)

(***************************************************************************)
(* telegram_bot.py: the handlers of the bot's updates                      *)
(***************************************************************************)
MaxEffects == 2            \* bound: effects of one sort the handlers make

\* Handlers of every sort of update, each with what its body does:
\* telegram_bot.py:304-311 cmd_start, 365-381 cmd_summary, 1081-1106
\* handle_forwarded_from_chat, 1368-1397 handle_photo, 1400-1502
\* handle_free_text, 471-479 cb_switch_mode, 482-488 cb_task_done, 500-506
\* cb_conf_yes, 527-533 cb_batch_none.
Handlers ==
    { [name |-> "cmd_start",        sort |-> "message",  store |-> FALSE, llm |-> FALSE],
      [name |-> "cmd_summary",      sort |-> "message",  store |-> FALSE, llm |-> TRUE],
      [name |-> "handle_forwarded_from_chat",
                                    sort |-> "message",  store |-> FALSE, llm |-> FALSE],
      [name |-> "handle_photo",     sort |-> "message",  store |-> FALSE, llm |-> TRUE],
      [name |-> "handle_free_text", sort |-> "message",  store |-> TRUE,  llm |-> TRUE],
      [name |-> "cb_switch_mode",   sort |-> "callback", store |-> TRUE,  llm |-> FALSE],
      [name |-> "cb_task_done",     sort |-> "callback", store |-> TRUE,  llm |-> FALSE],
      [name |-> "cb_conf_yes",      sort |-> "callback", store |-> TRUE,  llm |-> FALSE],
      [name |-> "cb_batch_none",    sort |-> "callback", store |-> TRUE,  llm |-> FALSE] }

NoUpdate == [name |-> "none", user |-> "none"]

BInit ==
    /\ store_writes = 0
    /\ llm_calls = 0
    /\ outgoing = 0
    /\ last_update = NoUpdate

BFrame == UNCHANGED <<lvars, wvars, tvars, cvars, ivars, avars, rvars, qvars, mvars, uvars, kvars, hvars, svars, evars, jvars, xvars, yvars, zvars, vvars, gvars, fvars, nvars, ovars, dvars>>

\* OwnerOnly as it would be without the comparison.
OwnerOnlyAnyone(user) == TRUE

\* telegram_bot.py:75-82  owner_only: the wrapped handler runs
OwnerOnly(user) == user = "owner"

\* telegram_bot.py:473-474, 484-485, ...  the first statement of every
\* callback handler: the body runs
CallbackFromOwner(user) == user = "owner"

Admitted(h, user) ==
    IF h.sort = "message" THEN OwnerOnly(user) ELSE CallbackFromOwner(user)

\* One update of the bot, from the owner or from somebody else, reaches its
\* handler; every handler body sends at least one message or answer.
BotUpdate(h, user) ==
    /\ BFrame
    /\ last_update' = [name |-> h.name, user |-> user]
    /\ IF Admitted(h, user)
       THEN /\ outgoing < MaxEffects
            /\ h.store => store_writes < MaxEffects
            /\ h.llm => llm_calls < MaxEffects
            /\ outgoing' = outgoing + 1
            /\ store_writes' = IF h.store THEN store_writes + 1 ELSE store_writes
            /\ llm_calls' = IF h.llm THEN llm_calls + 1 ELSE llm_calls
       ELSE UNCHANGED <<store_writes, llm_calls, outgoing>>

BNext == \E h \in Handlers, user \in Users : BotUpdate(h, user)

(***************************************************************************)
(* main.py: shutdown                                                       *)
(***************************************************************************)
MaxShutdowns == 3          \* bound: invocations of shutdown (signals and the final cleanup)

Shutdowns == 1..MaxShutdowns

\* main.py:155-158  the calls of shutdown in the order of the text
StopOrder == <<"stop_scheduler", "stop_listener", "stop_bot", "close_pool">>

SInit ==
    /\ sd_pc = [i \in Shutdowns |-> "idle"]
    /\ stop_calls = <<>>

\* shutdown writes _shutting_down and nothing else of the wrapper.
SFrame == UNCHANGED <<lpc, retry_delay, notified_down, recovering, crashes, offline_sent, outages_ended, restored_sent, waits, total_crashes, sleep_left, wvars, tvars, cvars, ivars, avars, rvars, qvars, mvars, uvars, kvars, hvars, bvars, evars, jvars, xvars, yvars, zvars, vvars, gvars, fvars, nvars, ovars, dvars>>

\* AlreadyShuttingDown as it would be without the test of the flag.
AlreadyShuttingDownIgnored == FALSE

\* main.py:151  if _shutting_down
AlreadyShuttingDown == shutting_down

\* main.py:149-154  an invocation of shutdown (a task made by handle_signal,
\* lines 161-164, or the call of the finally clause, line 178) tests and sets
\* the flag; no await stands between the test and the assignment.
ShutdownBegin(i) ==
    /\ SFrame
    /\ sd_pc[i] = "idle"
    /\ IF AlreadyShuttingDown
       THEN sd_pc' = [sd_pc EXCEPT ![i] = "returned"] /\ UNCHANGED shutting_down
       ELSE sd_pc' = [sd_pc EXCEPT ![i] = StopOrder[1]] /\ shutting_down' = TRUE
    /\ UNCHANGED stop_calls

\* main.py:155-158  the next stop function is called; when it raises, the
\* invocation is over and the functions after it are not called.
ShutdownStep(i, ok) ==
    /\ SFrame
    /\ \E k \in 1..Len(StopOrder) :
          /\ sd_pc[i] = StopOrder[k]
          /\ stop_calls' = Append(stop_calls, StopOrder[k])
          /\ sd_pc' = [sd_pc EXCEPT ![i] =
                         IF ~ok THEN "raised"
                         ELSE IF k = Len(StopOrder) THEN "done" ELSE StopOrder[k + 1]]
    /\ UNCHANGED shutting_down

SNext ==
    \/ \E i \in Shutdowns : ShutdownBegin(i)
    \/ \E i \in Shutdowns, ok \in BOOLEAN : ShutdownStep(i, ok)

(***************************************************************************)
(* ai_brain.py: AIBrain.ask                                                *)
(***************************************************************************)
MAX_RETRIES == 3           \* ai_brain.py:20

AskModes == {"cli", "api"}
AskModels == {"sonnet", "haiku", "opus"}

NoArgs == [mode |-> "none", model |-> "none", system_prompt |-> FALSE]

\* 2 ** n
RECURSIVE Pow2(_)
Pow2(n) == IF n = 0 THEN 1 ELSE 2 * Pow2(n - 1)

\* ai_brain.py:84  the other mode
Fallback(mode) == IF mode = "cli" THEN "api" ELSE "cli"

EInit ==
    /\ epc = "idle"
    /\ ask_args = NoArgs
    /\ attempt = 0
    /\ backend_calls = <<>>
    /\ ask_waits = <<>>
    /\ ask_outcome = "none"

EFrame == UNCHANGED <<lvars, wvars, tvars, cvars, ivars, avars, rvars, qvars, mvars, uvars, kvars, hvars, bvars, svars, jvars, xvars, yvars, zvars, vvars, gvars, fvars, nvars, ovars, dvars>>

\* ai_brain.py:59-70  ask is called; the mode is read from the settings.
AskBegin(mode, model, system_prompt) ==
    /\ EFrame
    /\ epc = "idle"
    /\ ask_args' = [mode |-> mode, model |-> model, system_prompt |-> system_prompt]
    /\ attempt' = 0
    /\ epc' = "try"
    /\ UNCHANGED <<backend_calls, ask_waits, ask_outcome>>

\* ai_brain.py:70-81  one pass of the retry loop: the backend of the mode is
\* called; a result is returned, a failure is followed by the sleep of line
\* 81 unless this was the last pass.
AskAttempt(ok) ==
    /\ EFrame
    /\ epc = "try"
    /\ backend_calls' = Append(backend_calls, [backend |-> ask_args.mode, ok |-> ok])
    /\ IF ok
       THEN /\ epc' = "returned"
            /\ ask_outcome' = "result"
            /\ UNCHANGED <<attempt, ask_waits>>
       ELSE /\ UNCHANGED ask_outcome
            /\ IF attempt < MAX_RETRIES - 1
               THEN /\ ask_waits' = Append(ask_waits, Pow2(attempt))
                    /\ attempt' = attempt + 1
                    /\ epc' = "try"
               ELSE /\ UNCHANGED <<ask_waits, attempt>>
                    /\ epc' = "fallback"
    /\ UNCHANGED ask_args

\* ai_brain.py:84-101  the one call of the other backend; a result is
\* followed by the notice of lines 93-96 inside the same try, so that a
\* notice that raises ends the call with the RuntimeError of line 99 as well.
AskFallback(ok, notified) ==
    /\ EFrame
    /\ epc = "fallback"
    /\ backend_calls' = Append(backend_calls, [backend |-> Fallback(ask_args.mode), ok |-> ok])
    /\ ok \/ notified
    /\ IF ok /\ notified
       THEN epc' = "returned" /\ ask_outcome' = "result"
       ELSE epc' = "raised" /\ ask_outcome' = "AI unavailable"
    /\ UNCHANGED <<ask_args, attempt, ask_waits>>

\* The caller has the result or the error; the next call can come.
AskOver ==
    /\ EFrame
    /\ epc \in {"returned", "raised"}
    /\ epc' = "idle"
    /\ ask_args' = NoArgs
    /\ attempt' = 0
    /\ backend_calls' = <<>>
    /\ ask_waits' = <<>>
    /\ ask_outcome' = "none"

ENext ==
    \/ \E mode \in AskModes, model \in AskModels, system_prompt \in BOOLEAN :
          AskBegin(mode, model, system_prompt)
    \/ \E ok \in BOOLEAN : AskAttempt(ok)
    \/ \E ok \in BOOLEAN, notified \in BOOLEAN : AskFallback(ok, notified)
    \/ AskOver

(***************************************************************************)
(* ai_brain.py: _parse_classification / _validate_classification           *)
(***************************************************************************)
CONF_MIN == 0              \* ai_brain.py:284  max(0, ...)
CONF_MAX == 100            \* ai_brain.py:284  min(100, ...)

\* ai_brain.py:17
VALID_TYPES == OriginalTypes \cup {"task", "spam"}

\* JSON values a response can carry in a field.  A float is given in tenths;
\* Infinity and NaN are what json.loads makes of Infinity, 1e999 and NaN.
Absent == [t |-> "absent"]
JNull == [t |-> "null"]
JInt(n) == [t |-> "int", n |-> n]
JFloat(tenths) == [t |-> "float", tenths |-> tenths]
JStr(chars) == [t |-> "str", chars |-> chars]
JBool(b) == [t |-> "bool", b |-> b]
JList == [t |-> "list"]
JInf == [t |-> "inf"]
JNaN == [t |-> "nan"]

TypeFields ==
    {JStr(<<"task_for_me">>), JStr(<<"spam">>), JStr(<<"order">>), Absent, JNull, JInt(1), JList}

ConfidenceFields ==
    {JInt(-5), JInt(0), JInt(50), JInt(100), JInt(150),
     JFloat(857), JFloat(-5), JFloat(1005),
     JStr(<<"8", "5">>), JStr(<<"-", "5">>), JStr(<<"1", "5", "0">>),
     JStr(<<"8", "5", "%">>), JStr(<<>>),
     JBool(TRUE), JNull, Absent, JList, JInf, JNaN}

\* The responses: no braces at all, braces around what is not JSON, a JSON
\* object with a type and a confidence field.
Raws ==
    {[kind |-> "no_braces", type |-> Absent, confidence |-> Absent],
     [kind |-> "bad_json", type |-> Absent, confidence |-> Absent]}
    \cup {[kind |-> "object", type |-> ty, confidence |-> c] :
             ty \in TypeFields, c \in ConfidenceFields}

NotParsed == [status |-> "none", type |-> "none", confidence |-> 0]
ParseRaised(exc) == [status |-> exc, type |-> "none", confidence |-> 0]
Verdict(type, confidence) == [status |-> "verdict", type |-> type, confidence |-> confidence]

DigitChars == <<"0", "1", "2", "3", "4", "5", "6", "7", "8", "9">>
IsDigit(c) == \E d \in 1..10 : DigitChars[d] = c
DigitVal(c) == (CHOOSE d \in 1..10 : DigitChars[d] = c) - 1

\* The value of a string of digits.
RECURSIVE DigitsVal(_)
DigitsVal(chars) ==
    IF chars = <<>> THEN 0
    ELSE DigitsVal(SubSeq(chars, 1, Len(chars) - 1)) * 10 + DigitVal(chars[Len(chars)])

\* int(str): an optional sign and at least one digit, else ValueError
StrToInt(chars) ==
    LET neg == chars # <<>> /\ chars[1] = "-"
        digits == IF neg THEN Tail(chars) ELSE chars
    IN  IF digits # <<>> /\ \A k \in 1..Len(digits) : IsDigit(digits[k])
        THEN [ok |-> TRUE, n |-> IF neg THEN 0 - DigitsVal(digits) ELSE DigitsVal(digits), exc |-> "none"]
        ELSE [ok |-> FALSE, n |-> 0, exc |-> "ValueError"]

\* int(float): towards zero
Trunc(tenths) == IF tenths >= 0 THEN tenths \div 10 ELSE 0 - ((0 - tenths) \div 10)

\* ai_brain.py:284  int(data.get("confidence", 0))
ToInt(v) ==
    CASE v.t = "absent" -> [ok |-> TRUE, n |-> 0, exc |-> "none"]
      [] v.t = "int"    -> [ok |-> TRUE, n |-> v.n, exc |-> "none"]
      [] v.t = "bool"   -> [ok |-> TRUE, n |-> IF v.b THEN 1 ELSE 0, exc |-> "none"]
      [] v.t = "float"  -> [ok |-> TRUE, n |-> Trunc(v.tenths), exc |-> "none"]
      [] v.t = "str"    -> StrToInt(v.chars)
      [] v.t = "inf"    -> [ok |-> FALSE, n |-> 0, exc |-> "OverflowError"]
      [] v.t = "nan"    -> [ok |-> FALSE, n |-> 0, exc |-> "ValueError"]
      [] OTHER          -> [ok |-> FALSE, n |-> 0, exc |-> "TypeError"]

\* Clamp as it would be without the upper limit.
ClampNoUpper(n) == Max(CONF_MIN, n)

\* ai_brain.py:284  max(0, min(100, n))
Clamp(n) == Max(CONF_MIN, Min(CONF_MAX, n))

\* ai_brain.py:283-286  the confidence of the verdict; ValueError and
\* TypeError give 0, any other exception leaves the function.
ValidConfidence(v) ==
    LET i == ToInt(v)
    IN  IF i.ok THEN [ok |-> TRUE, n |-> Clamp(i.n), exc |-> "none"]
        ELSE IF i.exc \in {"ValueError", "TypeError"} THEN [ok |-> TRUE, n |-> 0, exc |-> "none"]
        ELSE i

\* ai_brain.py:275-276  data.get("type") not in VALID_TYPES; the membership
\* test of a set hashes the value, which a list does not allow.
ValidType(v) ==
    IF v.t = "list" THEN [ok |-> FALSE, type |-> "none", exc |-> "TypeError"]
    ELSE IF v.t = "str" /\ Len(v.chars) = 1 /\ v.chars[1] \in VALID_TYPES
    THEN [ok |-> TRUE, type |-> v.chars[1], exc |-> "none"]
    ELSE [ok |-> TRUE, type |-> "info", exc |-> "none"]

\* ai_brain.py:314-322
DefaultClassification == Verdict("info", 0)

\* ai_brain.py:261-312  _parse_classification and _validate_classification
ParseClassificationOf(r) ==
    IF r.kind # "object" THEN DefaultClassification
    ELSE LET ty == ValidType(r.type)
             c == ValidConfidence(r.confidence)
         IN  IF ~ty.ok THEN ParseRaised(ty.exc)
             ELSE IF ~c.ok THEN ParseRaised(c.exc)
             ELSE Verdict(ty.type, c.n)

NoRaw == [kind |-> "none", type |-> Absent, confidence |-> Absent]

JInit ==
    /\ raw = NoRaw
    /\ parsed = NotParsed

JFrame == UNCHANGED <<lvars, wvars, tvars, cvars, ivars, avars, rvars, qvars, mvars, uvars, kvars, hvars, bvars, svars, evars, xvars, yvars, zvars, vvars, gvars, fvars, nvars, ovars, dvars>>

\* ai_brain.py:253-259  the judge answers with r and classify_message hands
\* the response to _parse_classification.
ParseClassification(r) ==
    /\ JFrame
    /\ raw' = r
    /\ parsed' = ParseClassificationOf(r)

JNext == \E r \in Raws : ParseClassification(r)

(***************************************************************************)
(* tools.py: execute_tool, called by the rounds of ask_with_tools          *)
(***************************************************************************)
MaxToolWrites == 2         \* bound: store mutations made by tool handlers

\* tools.py:550-560  the names that have a handler, by whether the handler
\* writes to the store
WritingTools == {"create_task", "complete_task", "cancel_task", "update_task",
                 "manage_whitelist", "update_preferences"}
ReadingTools == {"list_tasks", "search_memory", "get_chat_summary"}
TOOL_HANDLERS == WritingTools \cup ReadingTools

\* The tool_use blocks a response can carry: a name the table does not have,
\* a writing tool, a reading tool.
ToolUseLists ==
    { <<"send_email">>, <<"create_task">>, <<"send_email", "create_task">>,
      <<"create_task", "list_tasks">>, <<"list_tasks", "send_email">> }

\* How a handler can go: to its end, raising before it wrote (a missing
\* parameter, a failed statement), raising after it wrote.
HandlerRuns == {"ok", "raises_before_write", "raises_after_write"}

\* ExecuteTool as it would be without the try of line 228.
ExecuteToolNoTry(tool_name, run) ==
    IF tool_name \notin TOOL_HANDLERS
    THEN [error |-> TRUE, raised |-> FALSE, wrote |-> FALSE]
    ELSE [error |-> FALSE, raised |-> run # "ok",
          wrote |-> tool_name \in WritingTools /\ run # "raises_before_write"]

\* tools.py:226-236  execute_tool: the JSON it returns has an error field for
\* a name without a handler and for a handler that raised.
ExecuteTool(tool_name, run) ==
    IF tool_name \notin TOOL_HANDLERS
    THEN [error |-> TRUE, raised |-> FALSE, wrote |-> FALSE]
    ELSE [error |-> run # "ok", raised |-> FALSE,
          wrote |-> tool_name \in WritingTools /\ run # "raises_before_write"]

XInit ==
    /\ xpc = "model"
    /\ x_round = 0
    /\ pending = <<>>
    /\ requested = 0
    /\ tool_results = <<>>
    /\ x_writes = 0

XFrame == UNCHANGED <<lvars, wvars, tvars, cvars, ivars, avars, rvars, qvars, mvars, uvars, kvars, hvars, bvars, svars, evars, jvars, yvars, zvars, vvars, gvars, fvars, nvars, ovars, dvars>>

\* ai_brain.py:535-572  the model answers the round: with a final text, or
\* with tool_use blocks that are run one after the other.
ToolRoundBegins(final, blocks) ==
    /\ XFrame
    /\ xpc = "model"
    /\ IF final
       THEN /\ xpc' = "returned"
            /\ UNCHANGED <<pending, requested, tool_results>>
       ELSE /\ xpc' = "tools"
            /\ pending' = blocks
            /\ requested' = Len(blocks)
            /\ tool_results' = <<>>
    /\ UNCHANGED <<x_round, x_writes>>

\* ai_brain.py:574-592  the next tool_use block: execute_tool, then its result
\* joins tool_results.
ToolCall(run) ==
    /\ XFrame
    /\ xpc = "tools"
    /\ pending # <<>>
    /\ LET res == ExecuteTool(Head(pending), run)
       IN  /\ res.wrote => x_writes < MaxToolWrites
           /\ x_writes' = IF res.wrote THEN x_writes + 1 ELSE x_writes
           /\ IF res.raised
              THEN /\ xpc' = "raised"
                   /\ UNCHANGED <<pending, tool_results>>
              ELSE /\ xpc' = "tools"
                   /\ pending' = Tail(pending)
                   /\ tool_results' = Append(tool_results,
                                            [name |-> Head(pending), error |-> res.error,
                                             run |-> IF Head(pending) \in TOOL_HANDLERS
                                                     THEN run ELSE "no_handler"])
    /\ UNCHANGED <<x_round, requested>>

\* ai_brain.py:594-598, 534, 614-621  the results go to the conversation and
\* the next round begins, or the rounds are used up.
ToolRoundEnds ==
    /\ XFrame
    /\ xpc = "tools"
    /\ pending = <<>>
    /\ IF Exhausted(x_round)
       THEN xpc' = "returned" /\ UNCHANGED x_round
       ELSE xpc' = "model" /\ x_round' = x_round + 1
    /\ UNCHANGED <<pending, requested, tool_results, x_writes>>

XNext ==
    \/ \E final \in BOOLEAN, blocks \in ToolUseLists : ToolRoundBegins(final, blocks)
    \/ \E run \in HandlerRuns : ToolCall(run)
    \/ ToolRoundEnds

(***************************************************************************)
(* tools.py: the create_task tool and what it returns                      *)
(***************************************************************************)

MaxToolCalls == 2          \* bound: create_task tool calls of one behaviour

ToolCallIds == 1..MaxToolCalls

\* The tool has not returned.
NoReturn == [status |-> "(none)", task_id |-> 0, existing_task |-> 0]

\* tools.py:284-288  {"status": "created", "task_id": task_id}
Created(task_id) == [status |-> "created", task_id |-> task_id, existing_task |-> 0]

\* tools.py:267-279  {"status": "duplicate", ..., "existing_task": {...}} and
\* tools.py:289-292  {"status": "duplicate", "message": ...}, which has no
\* existing_task key (0 here).
Duplicate(existing_task) ==
    [status |-> "duplicate", task_id |-> 0, existing_task |-> existing_task]

\* tools.py:309-317 over db.py:480-488: the first match of _find_similar_task
\* in the order of get_active_tasks (no task of the model has a deadline, so
\* the order is created_at DESC: the newest row first); 0 is None.
SimilarTo(ts, description) ==
    LET desc_lower == Prefix(Strip(Lower(description)), TOOL_DEDUP_PREFIX)
    IN  {i \in ActiveIds(ts) :
            LET t_desc == Prefix(Strip(Lower(ts[i].description)), TOOL_DEDUP_PREFIX)
            IN  Contains(t_desc, desc_lower) \/ Contains(desc_lower, t_desc)}

FirstSimilarTask(ts, description) ==
    IF SimilarTo(ts, description) = {} THEN 0
    ELSE CHOOSE i \in SimilarTo(ts, description) :
            \A j \in SimilarTo(ts, description) : j <= i

YInit == tool_calls = [c \in ToolCallIds |-> [pc |-> "idle", d |-> <<>>, ret |-> NoReturn]]

\* The tool writes the task table and nothing else of the other components.
YFrame == UNCHANGED <<lvars, wvars, inflight, cvars, ivars, avars, rvars, qvars, mvars, uvars, kvars, hvars, bvars, svars, evars, jvars, xvars, zvars, vvars, gvars, fvars, nvars, ovars, dvars>>

\* tools.py:239-279  _tool_create_task up to the answer of _find_similar_task:
\* a match is returned as the existing task, otherwise create_task is called.
ToolCreateBegins(c, d) ==
    /\ YFrame
    /\ tool_calls[c].pc = "idle"
    /\ tool_calls' = [tool_calls EXCEPT ![c] =
            IF FirstSimilarTask(tasks, d) # 0
            THEN [pc |-> "returned", d |-> d, ret |-> Duplicate(FirstSimilarTask(tasks, d))]
            ELSE [pc |-> "db_check", d |-> d, ret |-> NoReturn]]
    /\ UNCHANGED tasks

\* db.py:463-466 and tools.py:289-292  the dedup test of create_task: on a
\* match create_task returns None and the tool answers duplicate.
ToolCreateChecks(c) ==
    /\ YFrame
    /\ tool_calls[c].pc = "db_check"
    /\ tool_calls' = [tool_calls EXCEPT ![c] =
            IF HasSimilarActiveTask(tasks, tool_calls[c].d)
            THEN [@ EXCEPT !.pc = "returned", !.ret = Duplicate(0)]
            ELSE [@ EXCEPT !.pc = "insert"]]
    /\ UNCHANGED tasks

\* db.py:468-477 and tools.py:284-288  the INSERT and the answer created.
ToolCreateInserts(c) ==
    /\ YFrame
    /\ tool_calls[c].pc = "insert"
    /\ Len(tasks) < MaxTasks
    /\ tasks' = Append(tasks, NewTask(tool_calls[c].d, 0))
    /\ tool_calls' = [tool_calls EXCEPT ![c] =
            [@ EXCEPT !.pc = "returned", !.ret = Created(Len(tasks) + 1)]]

YNext ==
    \/ \E c \in ToolCallIds, d \in Descriptions : ToolCreateBegins(c, d)
    \/ \E c \in ToolCallIds : ToolCreateChecks(c)
    \/ \E c \in ToolCallIds : ToolCreateInserts(c)

(***************************************************************************)
(* tools.py: the update_preferences tool                                   *)
(***************************************************************************)

\* tools.py:518-522  ALLOWED_KEYS; "ty" and "vy" stand for the two Russian
\* forms of address of the source.
ALLOWED_KEYS ==
    [address |-> {JStr("ty"), JStr("vy")},
     emoji   |-> {JBool(TRUE), JBool(FALSE), JStr("true"), JStr("false")},
     style   |-> {JStr("formal"), JStr("casual"), JStr("business-casual")}]

\* Keys and values a tool call can carry (params.get gives None, JNull, for
\* a missing one).
PrefKeys == {"address", "emoji", "style", "theme", "(none)"}

PrefValues ==
    {JStr("ty"), JStr("vy"), JStr("formal"), JStr("casual"), JStr("business-casual"),
     JStr("true"), JStr("false"), JStr("hey"), JBool(TRUE), JBool(FALSE), JInt(1), JNull}

\* tools.py:532, 536  the preferences when nothing is stored
DefaultPrefs ==
    [address |-> JStr("ty"), emoji |-> JBool(TRUE), style |-> JStr("business-casual")]

NoCall == [key |-> "(no call)", value |-> JNull, ret |-> "(none)", before |-> DefaultPrefs]

\* tools.py:529-530  value in [True, "true", "True", 1]
NormalizeEmoji(value) ==
    JBool(value \in {JBool(TRUE), JStr("true"), JStr("True"), JInt(1)})

ZInit ==
    /\ prefs = DefaultPrefs
    /\ pref_call = NoCall

ZFrame == UNCHANGED <<lvars, wvars, tvars, cvars, ivars, avars, rvars, qvars, mvars, uvars, kvars, hvars, bvars, svars, evars, jvars, xvars, yvars, vvars, gvars, fvars, nvars, ovars, dvars>>

\* tools.py:512-546  _tool_update_preferences: the key is tested against
\* ALLOWED_KEYS, the value of emoji is normalised, and the value is stored.
ToolUpdatePreferences(key, value) ==
    /\ ZFrame
    /\ IF key \notin DOMAIN ALLOWED_KEYS
       THEN /\ pref_call' = [key |-> key, value |-> value, ret |-> "error", before |-> prefs]
            /\ UNCHANGED prefs
       ELSE /\ prefs' = [prefs EXCEPT ![key] = IF key = "emoji" THEN NormalizeEmoji(value)
                                                                 ELSE value]
            /\ pref_call' = [key |-> key, value |-> value, ret |-> "saved", before |-> prefs]

ZNext == \E key \in PrefKeys, value \in PrefValues : ToolUpdatePreferences(key, value)

(***************************************************************************)
(* tools.py, telegram_bot.py: whitelist and blacklist mutations            *)
(***************************************************************************)

MaxListOps == 2            \* bound: list mutations of one behaviour

ListOpIds == 1..MaxListOps

\* Chat ids the owner names.
ListIds == {1, 2}

ListNames == {"whitelist", "blacklist"}

\* Who mutates a list: the manage_whitelist tool (tools.py:478-509), the
\* /whitelist and /blacklist commands (telegram_bot.py:846-925, 1140-1211),
\* the wl_/bl_ buttons (979-1028, 1262-1310), the forwarded-message add
\* (1109-1127).  The tool and the forward know the whitelist only, the
\* forward can only add.
ListCallers ==
    {c \in [via : {"tool", "command", "button", "forward"}, list : ListNames,
            action : {"add", "del", "clear"}] :
        /\ c.via \in {"tool", "forward"} => c.list = "whitelist"
        /\ c.via = "forward" => c.action = "add"
        /\ c.via = "tool" => c.action # "clear"}

NoListOp == [pc |-> "idle", via |-> "(none)", list |-> "(none)", action |-> "(none)",
             id |-> 0, local |-> <<>>, ret |-> "(none)"]

InList(l, id) == \E i \in 1..Len(l) : l[i] = id

\* list.remove(id): the first occurrence goes
RECURSIVE ListRemove(_, _)
ListRemove(l, id) ==
    IF l = <<>> THEN l
    ELSE IF Head(l) = id THEN Tail(l)
    ELSE <<Head(l)>> \o ListRemove(Tail(l), id)

VInit ==
    /\ settings = [whitelist |-> <<>>, blacklist |-> <<>>]
    /\ list_ops = [o \in ListOpIds |-> NoListOp]

VFrame == UNCHANGED <<lvars, wvars, tvars, cvars, ivars, avars, rvars, qvars, mvars, uvars, kvars, hvars, bvars, svars, evars, jvars, xvars, yvars, zvars, gvars, fvars, nvars, ovars, dvars>>

\* get_setting(list, "[]") and json.loads of every add and del: the handler
\* holds its own copy of the list from here on.
ListOpReads(o, c, id) ==
    /\ VFrame
    /\ list_ops[o].pc = "idle"
    /\ c.action # "clear"
    /\ list_ops' = [list_ops EXCEPT ![o] =
            [pc |-> "read", via |-> c.via, list |-> c.list, action |-> c.action,
             id |-> id, local |-> settings[c.list], ret |-> "(none)"]]
    /\ UNCHANGED settings

\* The change of the copy and set_setting.  The tool and the buttons write
\* only a changed list; the command writes the list back in every case
\* (telegram_bot.py:915, 1201).
ListOpWrites(o) ==
    LET op == list_ops[o]
        changes == IF op.action = "add" THEN ~InList(op.local, op.id)
                                        ELSE InList(op.local, op.id)
        changed == IF ~changes THEN op.local
                   ELSE IF op.action = "add" THEN Append(op.local, op.id)
                   ELSE ListRemove(op.local, op.id)
    IN  /\ VFrame
        /\ op.pc = "read"
        /\ settings' = IF changes \/ op.via = "command"
                         THEN [settings EXCEPT ![op.list] = changed]
                         ELSE settings
        /\ list_ops' = [list_ops EXCEPT ![o] =
                [@ EXCEPT !.pc = "done", !.local = changed,
                          !.ret = IF ~changes THEN "unchanged"
                                  ELSE IF op.action = "add" THEN "added" ELSE "removed"]]

\* telegram_bot.py:883-887, 1021-1028, 1170-1174, 1303-1310
\* set_setting(list, "[]") of the clear command and button, with no read.
ListOpClears(o, c) ==
    /\ VFrame
    /\ list_ops[o].pc = "idle"
    /\ c.action = "clear"
    /\ settings' = [settings EXCEPT ![c.list] = <<>>]
    /\ list_ops' = [list_ops EXCEPT ![o] =
            [pc |-> "done", via |-> c.via, list |-> c.list, action |-> "clear",
             id |-> 0, local |-> <<>>, ret |-> "cleared"]]

VNext ==
    \/ \E o \in ListOpIds, c \in ListCallers, id \in ListIds : ListOpReads(o, c, id)
    \/ \E o \in ListOpIds : ListOpWrites(o)
    \/ \E o \in ListOpIds, c \in ListCallers : ListOpClears(o, c)

(***************************************************************************)
(* telegram_listener.py: event-driven checks of tracked tasks              *)
(***************************************************************************)

TRACK_CHECK_DEBOUNCE == 60 \* telegram_listener.py:413
MaxMono == 130             \* bound: the monotonic clock stops here

\* time.monotonic() counts from an unspecified point: a process started just
\* after boot reads small values, one started later large ones.
BootTimes == {0, TRACK_CHECK_DEBOUNCE + 10}

\* Steps of the clock between two handlers: just inside the window and just
\* outside it.
MonoSteps == {TRACK_CHECK_DEBOUNCE - 1, TRACK_CHECK_DEBOUNCE}

\* Chats that hold an active task with track_completion.
TrackedChats == {"dm", "dm_wl"}

\* Persisted messages that reach the routing of telegram_listener.py:336-354.
Inbound ==
    {e \in [chat : {"dm", "dm_wl", "bot", "group_wl"},
            sender : {"person", "owner", "channel"},
            textlen : {MIN_CLASSIFY_LEN, MIN_CLASSIFY_LEN + 1},
            mark_ok : BOOLEAN] :
        e.sender \in SendersOf(e.chat)}

NoInbound == [chat |-> "(none)", sender |-> "(none)", textlen |-> 0, mark_ok |-> TRUE,
              at |-> 0, called |-> FALSE, started |-> FALSE, recent |-> FALSE]

\* telegram_listener.py:420 taken as never true
DebouncedNever(t, last_check) == FALSE

\* telegram_listener.py:418-421  now - last < _TRACK_CHECK_DEBOUNCE
Debounced(t, last_check) == t - last_check < TRACK_CHECK_DEBOUNCE

\* telegram_listener.py:336-354  whether the handler of a persisted message
\* gets as far as _check_response_to_tracked: not a channel post, a private
\* chat that is not the bot's, a text of more than 5 characters, the
\* classification marked (a raising mark_message_processed leaves through
\* the except of line 356), and a sender who is not the owner.
ReachesTrackedCheck(e) ==
    /\ e.sender # "channel"
    /\ IsPrivate(e.chat) /\ e.chat # "bot"
    /\ e.textlen > MIN_CLASSIFY_LEN
    /\ e.mark_ok
    /\ e.sender # "owner"

\* A check of the chat started less than 60 seconds before t.
StartedRecently(chat, t) ==
    \E s \in check_starts[chat] : t - s < TRACK_CHECK_DEBOUNCE

GInit ==
    /\ mono = -1
    /\ last_track_check = [c \in Chats |-> 0]
    /\ check_starts = [c \in Chats |-> {}]
    /\ last_inbound = NoInbound

GFrame == UNCHANGED <<lvars, wvars, tvars, cvars, ivars, avars, rvars, qvars, mvars, uvars, kvars, hvars, bvars, svars, evars, jvars, xvars, yvars, zvars, vvars, fvars, nvars, ovars, dvars>>

\* The process starts: the module is loaded with an empty _last_track_check.
ProcessStarts(t) ==
    /\ GFrame
    /\ mono = -1
    /\ mono' = t
    /\ UNCHANGED <<last_track_check, check_starts, last_inbound>>

MonoAdvances(d) ==
    /\ GFrame
    /\ mono >= 0
    /\ mono + d <= MaxMono
    /\ mono' = mono + d
    /\ UNCHANGED <<last_track_check, check_starts, last_inbound>>

\* telegram_listener.py:336-354 with 416-422: the routing of a persisted
\* message and the debounce of _check_response_to_tracked, which reads and
\* writes _last_track_check with no await in between.
RouteInbound(e) ==
    LET called == ReachesTrackedCheck(e)
        starts == called /\ ~Debounced(mono, last_track_check[e.chat])
    IN  /\ GFrame
        /\ mono >= 0
        /\ last_track_check' = IF starts THEN [last_track_check EXCEPT ![e.chat] = mono]
                                         ELSE last_track_check
        /\ check_starts' = IF starts THEN [check_starts EXCEPT ![e.chat] = @ \cup {mono}]
                                     ELSE check_starts
        /\ last_inbound' = [chat |-> e.chat, sender |-> e.sender, textlen |-> e.textlen,
                            mark_ok |-> e.mark_ok, at |-> mono, called |-> called,
                            started |-> starts,
                            recent |-> StartedRecently(e.chat, mono)]
        /\ UNCHANGED mono

GNext ==
    \/ \E t \in BootTimes : ProcessStarts(t)
    \/ \E d \in MonoSteps : MonoAdvances(d)
    \/ \E e \in Inbound : RouteInbound(e)

(***************************************************************************)
(* telegram_bot.py: feedback after a classification button                 *)
(***************************************************************************)

MaxPrompts == 3            \* bound: classification prompts shown to the owner

Prompts == 1..MaxPrompts

ClfButtons == {"clf_ok", "clf_no", "clf_task"}

NoAwaiting == [msg_id |-> 0, button |-> "(none)", expired |-> FALSE]

FInit ==
    /\ live_prompts = Prompts
    /\ awaiting_feedback = NoAwaiting
    /\ fb_rows = <<>>
    /\ fb_presses = {}
    /\ fb_raised = FALSE

FFrame == UNCHANGED <<lvars, wvars, tvars, cvars, ivars, avars, rvars, qvars, mvars, uvars, kvars, hvars, bvars, svars, evars, jvars, xvars, yvars, zvars, vvars, gvars, nvars, ovars, dvars>>

\* telegram_bot.py:281-290  _store_awaiting_feedback: the one entry of the
\* user is replaced by the new data.
StoreAwaitingFeedback(m, button) == [msg_id |-> m, button |-> button, expired |-> FALSE]

\* telegram_bot.py:624-770  cb_clf_ok, cb_clf_no, cb_clf_task on a prompt
\* whose entry exists: the entry is popped, the task is created or cancelled
\* and the callback answered (ok: none of these raises), and the data are
\* stored for the reason that the owner is asked for.
PressClfButton(m, button, ok) ==
    /\ FFrame
    /\ m \in live_prompts
    /\ live_prompts' = live_prompts \ {m}
    /\ fb_presses' = fb_presses \cup {m}
    /\ awaiting_feedback' = IF ok THEN StoreAwaitingFeedback(m, button) ELSE awaiting_feedback
    /\ fb_raised' = (fb_raised \/ ~ok)
    /\ UNCHANGED fb_rows

\* telegram_bot.py:1411-1412  more than _FEEDBACK_TIMEOUT has passed since the
\* entry was stored.
FeedbackExpires ==
    /\ FFrame
    /\ awaiting_feedback # NoAwaiting
    /\ ~awaiting_feedback.expired
    /\ awaiting_feedback' = [awaiting_feedback EXCEPT !.expired = TRUE]
    /\ UNCHANGED <<live_prompts, fb_rows, fb_presses, fb_raised>>

\* telegram_bot.py:1400-1438  handle_free_text while an entry waits: the
\* entry is popped and saved, without a reason when it has expired or the
\* text is /skip, with the text as reason otherwise; a save that raises is
\* logged.
OwnerText(skip, save_ok) ==
    /\ FFrame
    /\ awaiting_feedback # NoAwaiting
    /\ awaiting_feedback' = NoAwaiting
    /\ fb_rows' = IF save_ok
                    THEN Append(fb_rows,
                                [msg_id |-> awaiting_feedback.msg_id,
                                 button |-> awaiting_feedback.button,
                                 reason |-> ~awaiting_feedback.expired /\ ~skip])
                    ELSE fb_rows
    /\ fb_raised' = (fb_raised \/ ~save_ok)
    /\ UNCHANGED <<live_prompts, fb_presses>>

FNext ==
    \/ \E m \in Prompts, button \in ClfButtons, ok \in BOOLEAN : PressClfButton(m, button, ok)
    \/ FeedbackExpires
    \/ \E skip, save_ok \in BOOLEAN : OwnerText(skip, save_ok)

(***************************************************************************)
(* confidence_manager.py: _handle_urgent and the daily batch review        *)
(***************************************************************************)

MaxCq == 3                 \* bound: rows of confidence_queue under the batch review
DailyLimitSetting == 1     \* bound: the value of the setting confidence_daily_limit

NInit ==
    /\ cq = <<>>
    /\ asked_today = 0
    /\ date_changed = FALSE
    /\ batch_shown = {}
    /\ batch_day = 0

NFrame == UNCHANGED <<lvars, wvars, tvars, cvars, ivars, avars, rvars, qvars, mvars, uvars, kvars, hvars, bvars, svars, evars, jvars, xvars, yvars, zvars, vvars, gvars, fvars, ovars, dvars>>

\* db.py:585-594  get_pending_confidence: WHERE resolved = FALSE AND
\* is_urgent = FALSE ORDER BY created_at ASC LIMIT $1
PendingConfidence(rows, limit) ==
    LET unresolved == {i \in 1..Len(rows) : ~rows[i].resolved /\ ~rows[i].is_urgent}
    IN  {i \in unresolved : Cardinality({j \in unresolved : j < i}) < limit}

\* confidence_manager.py:56-61  _reset_daily_counter
ResetDailyCounter(n) == IF date_changed THEN 0 ELSE n

\* confidence_manager.py:278-330  _handle_urgent: with the quota of the day
\* used up the item is queued and nobody is told; otherwise it is counted,
\* queued and put to the owner at once.  Both INSERTs pass is_urgent=True.
HandleUrgent ==
    LET n == ResetDailyCounter(asked_today)
        silent == n >= DailyLimitSetting
    IN  /\ NFrame
        /\ Len(cq) < MaxCq
        /\ date_changed' = FALSE
        /\ asked_today' = IF silent THEN n ELSE n + 1
        /\ cq' = Append(cq, [is_urgent |-> TRUE, resolved |-> FALSE, prompted |-> ~silent])
        /\ UNCHANGED <<batch_shown, batch_day>>

\* Midnight passes.
DateChanges ==
    /\ NFrame
    /\ ~date_changed
    /\ date_changed' = TRUE
    /\ UNCHANGED <<cq, asked_today, batch_shown, batch_day>>

\* scheduler.py:110-116 and confidence_manager.py:333-365  the daily
\* confidence_batch: send_batch_review presents what get_pending_confidence
\* returns.
SendBatchReview ==
    /\ NFrame
    /\ batch_shown' = batch_shown \cup PendingConfidence(cq, CONFIDENCE_DAILY_LIMIT)
    /\ batch_day' = 1 - batch_day
    /\ UNCHANGED <<cq, asked_today, date_changed>>

\* telegram_bot.py:500-533  the owner answers an item that was put to him, at
\* once or in a batch: resolve_confidence sets resolved.
OwnerResolves(i) ==
    /\ NFrame
    /\ i \in 1..Len(cq)
    /\ ~cq[i].resolved
    /\ cq[i].prompted \/ i \in batch_shown
    /\ cq' = [cq EXCEPT ![i].resolved = TRUE]
    /\ UNCHANGED <<asked_today, date_changed, batch_shown, batch_day>>

NNext ==
    \/ HandleUrgent
    \/ DateChanges
    \/ SendBatchReview
    \/ \E i \in 1..MaxCq : OwnerResolves(i)

(***************************************************************************)
(* telegram_listener.py: handlers of several events running concurrently   *)
(***************************************************************************)

MaxUpstream == 2           \* bound: upstream events, received in the order of their numbers

Upstream == 1..MaxUpstream

OSenders == {"person", "owner", "channel"}

\* The events of the model arrive in a whitelisted private chat or in a
\* whitelisted group.
UpstreamEvents ==
    {e \in [chat : {"dm_wl", "group_wl"}, sender : OSenders, photo : BOOLEAN] :
        e.sender \in SendersOf(e.chat)}

NoEvent == [chat |-> "(none)", sender |-> "(none)", photo |-> FALSE]

OInit ==
    /\ opc = [u \in Upstream |-> "upstream"]
    /\ oevent = [u \in Upstream |-> NoEvent]
    /\ insert_order = <<>>
    /\ contacts = {}
    /\ contact_notes = [s \in OSenders |-> 0]

OFrame == UNCHANGED <<lvars, wvars, tvars, cvars, ivars, avars, rvars, qvars, mvars, uvars, kvars, hvars, bvars, svars, evars, jvars, xvars, yvars, zvars, vvars, gvars, fvars, nvars, dvars>>

\* telegram_listener.py:140-149  the client hands each event to its own
\* on_new_message task, in the order the events arrive; the task runs to its
\* first await (the cache of the whitelist, the sender, the chat).
OReceive(u, e) ==
    /\ OFrame
    /\ opc[u] = "upstream"
    /\ \A v \in Upstream : v < u => opc[v] # "upstream"
    /\ opc' = [opc EXCEPT ![u] = "lookup"]
    /\ oevent' = [oevent EXCEPT ![u] = e]
    /\ UNCHANGED <<insert_order, contacts, contact_notes>>

\* telegram_listener.py:246-283  the awaited lookups have answered; a photo
\* in a private chat goes on to the image analysis (line 287).
OLookup(u) ==
    /\ OFrame
    /\ opc[u] = "lookup"
    /\ opc' = [opc EXCEPT ![u] = IF oevent[u].photo /\ IsPrivate(oevent[u].chat)
                                   THEN "vision" ELSE "insert"]
    /\ UNCHANGED <<oevent, insert_order, contacts, contact_notes>>

\* telegram_listener.py:287-296  download_media and analyze_image have answered
OVision(u) ==
    /\ OFrame
    /\ opc[u] = "vision"
    /\ opc' = [opc EXCEPT ![u] = "insert"]
    /\ UNCHANGED <<oevent, insert_order, contacts, contact_notes>>

\* telegram_listener.py:324-325  the new-contact step is for a whitelisted
\* chat and a sender who is neither the owner nor a channel (the bot's chat
\* is not among the chats here).
ContactStepFor(e) == InWhitelist(e.chat) /\ e.sender \notin {"owner", "channel"}

\* telegram_listener.py:299-312  save_message
OInsert(u) ==
    /\ OFrame
    /\ opc[u] = "insert"
    /\ insert_order' = Append(insert_order, u)
    /\ opc' = [opc EXCEPT ![u] = IF ContactStepFor(oevent[u]) THEN "is_known" ELSE "done"]
    /\ UNCHANGED <<oevent, contacts, contact_notes>>

\* telegram_listener.py:326 and db.py:527-534  is_known_contact
OIsKnown(u) ==
    /\ OFrame
    /\ opc[u] = "is_known"
    /\ opc' = [opc EXCEPT ![u] = IF oevent[u].sender \in contacts THEN "done" ELSE "create"]
    /\ UNCHANGED <<oevent, insert_order, contacts, contact_notes>>

\* telegram_listener.py:327-334 and db.py:512-524  get_or_create_contact
\* (the row is returned when it exists, inserted otherwise) and the notice.
ONewContact(u) ==
    /\ OFrame
    /\ opc[u] = "create"
    /\ contacts' = contacts \cup {oevent[u].sender}
    /\ contact_notes' = [contact_notes EXCEPT ![oevent[u].sender] = @ + 1]
    /\ opc' = [opc EXCEPT ![u] = "done"]
    /\ UNCHANGED <<oevent, insert_order>>

ONext ==
    \/ \E u \in Upstream, e \in UpstreamEvents : OReceive(u, e)
    \/ \E u \in Upstream : OLookup(u)
    \/ \E u \in Upstream : OVision(u)
    \/ \E u \in Upstream : OInsert(u)
    \/ \E u \in Upstream : OIsKnown(u)
    \/ \E u \in Upstream : ONewContact(u)

(***************************************************************************)
(* telegram_listener.py: resolve_chat_names and its cache                  *)
(***************************************************************************)

CHAT_NAMES_TTL == 300      \* telegram_listener.py:162
MaxNameTime == 900         \* bound: the clock of the chat-name cache stops here

NameChats == {"c1", "c2"}

\* Steps of the clock between two calls: just inside the TTL and at the TTL.
NameSteps == {CHAT_NAMES_TTL - 1, CHAT_NAMES_TTL}

DInit ==
    /\ ntime = 0
    /\ chat_names_cache = {}
    /\ chat_names_cache_time = 0
    /\ fetched_at = [c \in NameChats |-> 0]
    /\ served_age = 0

DFrame == UNCHANGED <<lvars, wvars, tvars, cvars, ivars, avars, rvars, qvars, mvars, uvars, kvars, hvars, bvars, svars, evars, jvars, xvars, yvars, zvars, vvars, gvars, fvars, nvars, ovars>>

NameTimePasses(d) ==
    /\ DFrame
    /\ ntime + d <= MaxNameTime
    /\ ntime' = ntime + d
    /\ UNCHANGED <<chat_names_cache, chat_names_cache_time, fetched_at, served_age>>

\* The largest of a non-empty set of numbers, 0 for the empty set.
MaxOf(S) == IF S = {} THEN 0 ELSE CHOOSE x \in S : \A y \in S : y <= x

\* telegram_listener.py:166-210  resolve_chat_names with a client connected:
\* while the one timestamp of the cache is younger than the TTL the ids the
\* cache holds are answered from it; the others are fetched (fetched: the ids
\* for which get_entity answers), and after a fetch the timestamp is now.
ResolveChatNames(chat_ids, fetched) ==
    LET cache_valid == (ntime - chat_names_cache_time) < CHAT_NAMES_TTL
        from_cache == {c \in chat_ids : cache_valid /\ c \in chat_names_cache}
        missing == chat_ids \ from_cache
    IN  /\ DFrame
        /\ fetched \subseteq missing
        /\ served_age' = MaxOf({ntime - fetched_at[c] : c \in from_cache})
        /\ chat_names_cache' = chat_names_cache \cup fetched
        /\ fetched_at' = [c \in NameChats |-> IF c \in fetched THEN ntime ELSE fetched_at[c]]
        /\ chat_names_cache_time' = IF missing = {} THEN chat_names_cache_time ELSE ntime
        /\ UNCHANGED ntime

DNext ==
    \/ \E d \in NameSteps : NameTimePasses(d)
    \/ \E chat_ids \in SUBSET NameChats, fetched \in SUBSET NameChats :
          ResolveChatNames(chat_ids, fetched)

(***************************************************************************)
(* The specifications                                                      *)
(***************************************************************************)
Init == LInit /\ WInit /\ TInit /\ CInit /\ IInit /\ AInit /\ RInit /\ QInit /\ MInit /\ UInit /\ KInit /\ HInit /\ BInit /\ SInit /\ EInit /\ JInit /\ XInit /\ YInit /\ ZInit /\ VInit /\ GInit /\ FInit /\ NInit /\ OInit /\ DInit

SpecListener == Init /\ [][LNext]_vars

SpecWatchdog == Init /\ [][WNext]_vars

SpecTasks == Init /\ [][TNext]_vars

SpecClassify == Init /\ [][CNext]_vars

SpecIngest == Init /\ [][INext]_vars

\* The awaited call of the model comes back, so a call that is in its loop
\* is not left there forever.
SpecAsk == Init /\ [][ANext]_vars /\ WF_vars(AskResponse)

SpecRecur == Init /\ [][RNext]_vars

SpecQueue == Init /\ [][QNext]_vars

SpecReminders == Init /\ [][MNext]_vars

SpecUrgent == Init /\ [][UNext]_vars

SpecAutoTask == Init /\ [][KNext]_vars

\* The finally clause runs on: the mark is not postponed forever.
SpecHandler == Init /\ [][HNext]_vars /\ WF_vars(HMarkStep)

SpecBot == Init /\ [][BNext]_vars

SpecShutdown == Init /\ [][SNext]_vars

SpecAskRetry == Init /\ [][ENext]_vars

SpecParse == Init /\ [][JNext]_vars

\* The loop of the tool_use blocks and the round run on.
SpecTools == Init /\ [][XNext]_vars /\ WF_vars(\E run \in HandlerRuns : ToolCall(run)) /\ WF_vars(ToolRoundEnds)

SpecToolCreate == Init /\ [][YNext]_vars

SpecPreferences == Init /\ [][ZNext]_vars

SpecLists == Init /\ [][VNext]_vars

SpecTracked == Init /\ [][GNext]_vars

SpecFeedback == Init /\ [][FNext]_vars

\* The scheduler runs the batch review every day.
SpecBatch == Init /\ [][NNext]_vars /\ WF_vars(SendBatchReview)

SpecConcurrent == Init /\ [][ONext]_vars

SpecChatNames == Init /\ [][DNext]_vars

(***************************************************************************)
(* The properties                                                          *)
(***************************************************************************)
\* C1: the table holds at most one row per (telegram_msg_id, chat_id), and
\* the delivery of an event whose key is stored already changes neither the
\* table (no new row, no row handed to the classifier) nor the contacts, and
\* sends no notice.
C1_OneRowPerKey ==
    /\ [](\A r1, r2 \in BagToSet(messages) :
              /\ CopiesIn(r1, messages) = 1
              /\ Key(r1) = Key(r2) => r1 = r2)
    /\ [][last'.replay =>
              UNCHANGED <<messages, known_contact, contact_notices>>]_vars

\* C1 witness: after a restart the second account delivers an event whose
\* row was handed to the classifier before the restart.
C1_Witness ==
    /\ last = [replay |-> TRUE, account |-> "acc2"]
    /\ restarted
    /\ \E r \in BagToSet(messages) : r.status = "classified"

\* The 50-character containment rule of the specification.
Match50(a, b) ==
    LET a50 == Lower(Prefix(a, DEDUP_PREFIX))
        b50 == Lower(Prefix(b, DEDUP_PREFIX))
    IN  Contains(a50, b50) \/ Contains(b50, a50)

\* C2: no two active tasks have descriptions that match under the
\* 50-character containment rule.
C2_NoSimilarActiveTasks ==
    \A i, j \in ActiveIds(tasks) :
        i # j => ~Match50(tasks[i].description, tasks[j].description)

\* C3: a task that is done or cancelled keeps its status in every step.
C3_TerminalStatus ==
    [][\A i \in 1..Len(tasks) :
          tasks[i].status # "active" => tasks'[i].status = tasks[i].status]_vars

\* C4: a task made from message m exists only if the verdict on m was above
\* the HIGH threshold with a task-like type, or the owner confirmed: clf_ok
\* on the prompt of a verdict in [50, 80], clf_task on the notice of a
\* verdict below 50.
C4_TaskNeedsHighOrConfirmation ==
    \A i \in 1..Len(tasks) :
        LET m == tasks[i].source_msg_id IN
        m # 0 =>
            \/ /\ verdict[m].confidence > 80
               /\ verdict[m].db_type \in {"task", "promise_mine", "promise_incoming"}
            \/ /\ verdict[m].confidence \in 50..80
               /\ "clf_ok" \in pressed[m]
            \/ /\ verdict[m].confidence \in 0..49
               /\ "clf_task" \in pressed[m]

\* C4 witness: a task-like verdict of exactly 80 has put its prompt before
\* the owner, who has not pressed anything, and there is no task.
C4_Witness ==
    \E m \in Msgs :
        /\ verdict[m].confidence = 80
        /\ verdict[m].db_type = "task"
        /\ buttons[m] = "classify_medium"
        /\ pressed[m] = {}
        /\ tasks = <<>>

\* C5 as stated: a stored message was handed to the classifier if and only if
\* its text is longer than 5 and its chat is private and not the bot's.
C5_ClassifiedIffLongPrivate ==
    \A r \in BagToSet(messages) :
        r.status = "classified" <=> (r.len > 5 /\ r.chat \in {"dm", "dm_wl"})

\* C5 amended: a message is handed to the classifier only if its text is
\* longer than 5 and its chat is private and not the bot's; a handler that
\* gets to the routing hands every such message over; a handler that does
\* not get there raised in the new-contact step of a whitelisted chat.
\* Messages of whitelisted groups and channels are never handed over.
C5_RoutingRule ==
    \A r \in BagToSet(messages) :
        /\ r.status = "classified" => (r.len > 5 /\ r.chat \in {"dm", "dm_wl"})
        /\ r.status = "processed" => ~(r.len > 5 /\ r.chat \in {"dm", "dm_wl"})
        /\ r.status = "unprocessed" => r.chat \in {"dm_wl", "group_wl"}
        /\ r.chat \in {"group_wl", "channel_wl"} => r.status # "classified"

\* C5 witness: a long message of a whitelisted private chat went through the
\* new-contact step and was handed to the classifier.
C5_Witness ==
    \E r \in BagToSet(messages) :
        /\ r.chat = "dm_wl"
        /\ r.len > 5
        /\ r.status = "classified"
        /\ contact_notices = 1

RECURSIVE ExpectedWait(_)
ExpectedWait(k) == IF k <= 1 THEN initial_retry_delay ELSE Min(2 * ExpectedWait(k - 1), max_delay)

\* C7: every outage has exactly one offline notice, sent at its first crash,
\* and exactly one restored notice, sent at the reconnect that ends it.
C7_OneNoticePerOutage ==
    /\ (crashes > 0 => offline_sent = 1)
    /\ (crashes = 0 => offline_sent = 0)
    /\ restored_sent = outages_ended

\* C8: within one outage the waits are 30, 60, 120, 240, 300, 300, ...
C8_BackoffSequence ==
    \A k \in 1..Len(waits) : waits[k] = ExpectedWait(k)

\* C9: the first wait of every outage is 30 seconds again.
C9_BackoffReset ==
    Len(waits) >= 1 => waits[1] = initial_retry_delay

\* C10: in one down episode of a module at most 3 down alerts are sent.
C10_AtMostThreeAlerts ==
    \A m \in ModuleSet : episode_alerts[m] <= MAX_ALERTS

\* C10 witness: a module got its 3 alerts and a later scan of the same
\* episode stayed silent.
C10_Witness ==
    \E m \in ModuleSet : episode_alerts[m] = MAX_ALERTS /\ silenced[m] /\ IsDown(m)

AllToolUse(k) == \A i \in 1..k : stops[i] = "tool_use"

C13_ConcurrentCreateOnce ==
    [][Len(tasks') = Len(tasks) + 1 =>
         \A i \in ActiveIds(tasks) :
             tasks[i].description # tasks'[Len(tasks')].description]_vars

\* C14: a step that completes an active task adds exactly one active task
\* with the same description when the task was created with recurrence
\* daily, weekly or monthly, and adds no task otherwise.  (The deadline and
\* remind_at of the new task would come on top of this.)
C14_RecurringClone ==
    [][\A id \in ActiveIds(tasks) :
          (id <= Len(tasks') /\ tasks'[id].status = "done") =>
              IF asked_recurrence[id] \in {"daily", "weekly", "monthly"}
                THEN Cardinality({j \in ActiveIds(tasks') \ ActiveIds(tasks) :
                                    tasks'[j].description = tasks[id].description}) = 1
                ELSE Len(tasks') = Len(tasks)]_vars

\* Rows of classification_feedback for the message of queue row q.
FeedbackRows(fb, q) == {i \in 1..Len(fb) : fb[i].message_id = q}

\* Rows of tasks created from the message of queue row q.
TasksFromItem(ts, q) == {i \in 1..Len(ts) : ts[i].source_msg_id = q}

\* C15: once a row of the confidence queue is resolved, no later step adds a
\* feedback row or a task for it.
C15_ResolveOnce ==
    [][\A q \in 1..Len(confidence_queue) :
          confidence_queue[q].resolved =>
              /\ FeedbackRows(feedback', q) = FeedbackRows(feedback, q)
              /\ TasksFromItem(tasks', q) = TasksFromItem(tasks, q)]_vars

\* C16: for every task at most one reminder notification is ever delivered,
\* whichever call of a scan fails.
C16_ReminderOnce ==
    \A id \in 1..Len(timed) : reminded[id] <= 1

\* C17: a task whose remind_at_sent is set has had a reminder notification
\* delivered.
C17_StampedWasNotified ==
    \A id \in 1..Len(timed) : timed[id].remind_at_sent => reminded[id] >= 1

\* C17 witness: a scan stamped one task after its notification and left
\* another, whose turn did not come or whose notification failed, unstamped.
C17_Witness ==
    \E id, other \in 1..Len(timed) :
        /\ timed[id].remind_at_sent
        /\ reminded[id] = 1
        /\ ~timed[other].remind_at_sent
        /\ reminded[other] = 0
        /\ timed[other].status = "active"
        /\ timed[other].remind_at <= now

\* C18: on one calendar day at most CONFIDENCE_DAILY_LIMIT immediate urgent
\* prompts are sent.
C18_UrgentQuota ==
    urgent_today <= CONFIDENCE_DAILY_LIMIT

\* C19: a message whose verdict is urgent has had its notice issued by the
\* end of process_classification, whatever its confidence and type.
C19_UrgentNotifiedAtOnce ==
    \A m \in Msgs : verdict[m].is_urgent => prompts[m] >= 1

ClassifierEnded(m) == clf[m] \in {"returned", "raised"}

\* C21 (amended): a row that goes to the classifier is never marked processed
\* before the classifier call has returned or raised, and once the call has
\* ended the row becomes processed unless the UPDATE of the mark itself
\* raises.
C21_MarkAfterClassification ==
    /\ [](\A m \in HEvents : (hkind[m].classify /\ processed[m]) => ClassifierEnded(m))
    /\ \A m \in HEvents :
          ClassifierEnded(m) ~> (processed[m] \/ "mark" \in raised_at[m])

\* C21 as stated: once the classifier call has ended the row becomes
\* processed, and never before.
C21_ProcessedOnceClassified ==
    /\ [](\A m \in HEvents : (hkind[m].classify /\ processed[m]) => ClassifierEnded(m))
    /\ \A m \in HEvents : ClassifierEnded(m) ~> processed[m]

\* C21 witness: the classifier call of an event raised and its row was marked
\* processed afterwards.
C21_Witness ==
    \E m \in HEvents :
        /\ hkind[m].classify
        /\ clf[m] = "raised"
        /\ processed[m]
        /\ hpc[m] = "done"

\* C22 (amended): no exception leaves on_new_message; a handler in which a
\* step before the mark (or the mark) raised leaves processed = FALSE; an
\* exception of the classifier call is caught in _classify_and_mark and the
\* row is marked processed all the same; an event that has not been handled
\* yet can still be handled after another event's handler raised.
C22_CaughtInHandler ==
    \A m \in HEvents :
        /\ ~escaped[m]
        /\ processed[m] => raised_at[m] \subseteq {"classify", "tracked"}
        /\ (hpc[m] = "done" /\ "classify" \in raised_at[m])
              => (processed[m] \/ "mark" \in raised_at[m])
        /\ raised_at[m] # {} =>
              \A n \in HEvents :
                  hpc[n] = "new" => ENABLED (\E k \in HKinds : HSave(n, k, TRUE))

\* C22 as stated: whatever step raised, the exception does not leave the
\* handler and processed is left FALSE.
C22_RaisedLeavesUnprocessed ==
    \A m \in HEvents :
        /\ ~escaped[m]
        /\ raised_at[m] # {} => ~processed[m]

\* C22 witness: the handler of one event raised after its row was saved and
\* ended with processed = FALSE, and a later event was handled to its end.
C22_Witness ==
    \E m, n \in HEvents :
        /\ m # n
        /\ hpc[m] = "done" /\ row[m] /\ raised_at[m] = {"contact"} /\ ~processed[m]
        /\ hpc[n] = "done" /\ processed[n] /\ raised_at[n] = {}

\* C23: an update whose from_user is not the owner (a command, a free text,
\* a photo, a forwarded message, a callback press) mutates nothing in the
\* store, calls no LLM and sends nothing.
C23_StrangerNoEffect ==
    [][last_update'.user # "owner" =>
          UNCHANGED <<store_writes, llm_calls, outgoing>>]_vars

\* C23 witness: after the owner's updates had their effects, a free text of
\* somebody else was handled.
C23_Witness ==
    /\ last_update = [name |-> "handle_free_text", user |-> "other"]
    /\ store_writes > 0 /\ llm_calls > 0 /\ outgoing > 0

\* C25: once shutdown has begun the wrapper makes no further call of
\* start_listener, and a backoff sleep that is running is abandoned: none of
\* its remaining seconds is waited out.
C25_BackoffInterruptible ==
    [][shutting_down =>
          /\ (lpc' = "starting" => lpc = "starting")
          /\ (lpc = "sleeping" => sleep_left' = sleep_left)]_vars

\* C24: however many invocations of shutdown there are, and however they
\* overlap, stop_scheduler, stop_listener, stop_bot and close_pool are each
\* called at most once, and in that order.
C24_StopOnceInOrder ==
    /\ Len(stop_calls) <= Len(StopOrder)
    /\ \A k \in 1..Len(stop_calls) : stop_calls[k] = StopOrder[k]

\* C24 witness: a second invocation came while the first one was between two
\* stop functions and returned at once; the first one made all four calls.
C24_Witness ==
    \E i, j \in Shutdowns :
        /\ sd_pc[i] = "done"
        /\ sd_pc[j] = "returned"
        /\ stop_calls = StopOrder

\* The calls made on one backend, and the failed ones among them.
CallsOn(backend) == {k \in 1..Len(backend_calls) : backend_calls[k].backend = backend}
FailedOn(backend) == {k \in CallsOn(backend) : ~backend_calls[k].ok}

\* C26: one ask call makes at most 3 attempts on the configured backend and
\* waits 1, 2 and 4 seconds after the first, second and third failure, then
\* makes exactly one attempt on the alternate backend; it returns the first
\* successful completion and raises the AI-unavailable error only when every
\* attempt has failed.
C26_RetryThenFallback ==
    epc \in {"returned", "raised"} =>
        LET failures == Cardinality(FailedOn(ask_args.mode))
        IN  /\ Cardinality(CallsOn(ask_args.mode)) <= MAX_RETRIES
            /\ Cardinality(CallsOn(Fallback(ask_args.mode))) <= 1
            /\ ask_waits = SubSeq(<<1, 2, 4>>, 1, failures)
            /\ epc = "raised" => \A k \in 1..Len(backend_calls) : ~backend_calls[k].ok
            /\ epc = "returned" => backend_calls[Len(backend_calls)].ok

C28_ToolErrorsAreResults ==
    /\ [](xpc # "raised")
    /\ [](\A k \in 1..Len(tool_results) :
             tool_results[k].error <=> tool_results[k].run # "ok")
    /\ [][(xpc = "tools" /\ pending # <<>> /\ Head(pending) = "send_email")
              => x_writes' = x_writes]_vars
    /\ [](xpc = "model" /\ x_round > 0 => Len(tool_results) = requested)
    /\ (xpc = "tools") ~> (xpc \in {"model", "returned"})

\* C28 witness: in one round an unknown tool and a handler that raised gave
\* error results, and the next round has begun.
C28_Witness ==
    /\ xpc = "model"
    /\ x_round = 2
    /\ Len(tool_results) = 2
    /\ tool_results[1].run = "no_handler" /\ tool_results[1].error
    /\ tool_results[2].run = "raises_before_write" /\ tool_results[2].error

\* C29: a create_task tool call that has returned answers created with the id
\* of an active row holding its description, or duplicate together with an
\* existing task; and once the same request has been made twice, exactly one
\* active task has that description.
C29_CreatedOrExistingTask ==
    /\ \A c \in ToolCallIds :
          tool_calls[c].pc = "returned" =>
              \/ /\ tool_calls[c].ret.status = "created"
                 /\ tool_calls[c].ret.task_id \in ActiveIds(tasks)
                 /\ tasks[tool_calls[c].ret.task_id].description = tool_calls[c].d
              \/ /\ tool_calls[c].ret.status = "duplicate"
                 /\ tool_calls[c].ret.existing_task \in ActiveIds(tasks)
    /\ \A c1, c2 \in ToolCallIds :
          /\ c1 # c2
          /\ tool_calls[c1].pc = "returned" /\ tool_calls[c2].pc = "returned"
          /\ tool_calls[c1].d = tool_calls[c2].d
          => Cardinality({i \in ActiveIds(tasks) :
                            tasks[i].description = tool_calls[c1].d}) = 1

\* C30: the stored preferences hold only whitelisted values (address ty or vy,
\* style formal, casual or business-casual, emoji a boolean), and a call whose
\* key and value are not of the whitelist has answered with an error and has
\* left the stored preferences as they were.
C30_OnlyWhitelistedStored ==
    /\ prefs.address \in {JStr("ty"), JStr("vy")}
    /\ prefs.style \in {JStr("formal"), JStr("casual"), JStr("business-casual")}
    /\ prefs.emoji \in {JBool(TRUE), JBool(FALSE)}
    /\ \/ pref_call = NoCall
       \/ /\ pref_call.key = "address" /\ pref_call.value \in {JStr("ty"), JStr("vy")}
       \/ /\ pref_call.key = "style"
          /\ pref_call.value \in {JStr("formal"), JStr("casual"), JStr("business-casual")}
       \/ /\ pref_call.key = "emoji" /\ pref_call.value \in {JBool(TRUE), JBool(FALSE)}
       \/ /\ pref_call.ret = "error" /\ prefs = pref_call.before

\* C31: no id is in both the stored whitelist and the stored blacklist.
C31_ListsDisjoint ==
    \A id \in ListIds :
        ~(InList(settings.whitelist, id) /\ InList(settings.blacklist, id))

\* C40: when two additions to the whitelist for different chat ids have both
\* completed, both ids are in the stored whitelist.
C40_BothChangesStored ==
    \A o1, o2 \in ListOpIds :
        /\ o1 # o2
        /\ list_ops[o1].pc = "done" /\ list_ops[o2].pc = "done"
        /\ list_ops[o1].list = "whitelist" /\ list_ops[o2].list = "whitelist"
        /\ list_ops[o1].ret = "added" /\ list_ops[o2].ret = "added"
        /\ list_ops[o1].id # list_ops[o2].id
        => /\ InList(settings.whitelist, list_ops[o1].id)
           /\ InList(settings.whitelist, list_ops[o2].id)

\* C32: for each chat any two starts of a tracked-task check are at least 60
\* seconds apart, and a message routed while a check of its chat started less
\* than 60 seconds ago starts no check.
C32_ChecksDebounced ==
    /\ \A c \in Chats : \A s1, s2 \in check_starts[c] :
          s1 < s2 => s2 - s1 >= TRACK_CHECK_DEBOUNCE
    /\ last_inbound.recent => ~last_inbound.started

\* C32 witness: a message reached the debounce inside the window of an
\* earlier check of its chat and started none, after two checks of that chat.
C32_Witness ==
    /\ last_inbound.called /\ last_inbound.recent /\ ~last_inbound.started
    /\ Cardinality(check_starts[last_inbound.chat]) >= 2

\* C33: a persisted message of somebody other than the owner in a chat that
\* holds a tracked task has started a check unless a check of that chat
\* started in the 60 seconds before it.
C33_InboundStartsCheck ==
    /\ last_inbound.chat \in TrackedChats
    /\ last_inbound.sender # "owner"
    /\ ~last_inbound.recent
    => last_inbound.started

\* C34: once the owner's text has been handled and no entry waits, every
\* message whose classification button was pressed has exactly one feedback
\* row (no awaited call having raised).
C34_OneFeedbackPerPress ==
    (awaiting_feedback = NoAwaiting /\ ~fb_raised) =>
        \A m \in fb_presses :
            Cardinality({i \in 1..Len(fb_rows) : fb_rows[i].msg_id = m}) = 1

\* C35: every queued item that stays unresolved, the silently queued urgent
\* ones included, is eventually presented in a batch review.
C35_UnresolvedEventuallyReviewed ==
    \A i \in 1..MaxCq :
        (i \in 1..Len(cq) /\ ~cq[i].resolved)
            ~> (i \in batch_shown \/ (i \in 1..Len(cq) /\ cq[i].resolved))

\* C36: the messages of one chat are inserted in the order in which their
\* events were received.
C36_InsertedInReceiptOrder ==
    \A i, j \in 1..Len(insert_order) :
        (i < j /\ oevent[insert_order[i]].chat = oevent[insert_order[j]].chat)
            => insert_order[i] < insert_order[j]

\* C37: at most one new-contact notice per sender, one once a handler of a
\* message of the sender has finished the contact step, and none for the
\* owner or a channel.
C37_OneNoticePerContact ==
    /\ \A s \in OSenders : contact_notes[s] <= 1
    /\ contact_notes["owner"] = 0 /\ contact_notes["channel"] = 0
    /\ \A u \in Upstream :
          (opc[u] = "done" /\ ContactStepFor(oevent[u])) => contact_notes[oevent[u].sender] = 1

\* C38: a name that resolve_chat_names answers from its cache was fetched
\* from the transport no more than 5 minutes before.
C38_CachedNameFresh == served_age <= CHAT_NAMES_TTL

\* C39: a monitored module that has never written a heartbeat row has not been
\* judged by any scan: it is not in _known_down, no alert has been counted or
\* sent for it, and the latest scan did not reach it.
C39_NoRowNeverDown ==
    \A m \in ModuleSet :
        hb[m] = -1 =>
            /\ m \notin known_down
            /\ m \notin seen_down
            /\ alert_counts[m] = 0
            /\ episode_alerts[m] = 0
            /\ m \notin scan.reached

\* C39 witness: a scan has reported one module down, after the longest age
\* the model counts, while another module still has no row.
C39_Witness ==
    /\ \E m \in ModuleSet : hb[m] = -1
    /\ \E m \in ModuleSet : hb[m] = MaxAge /\ m \in scan.reached /\ m \in known_down

====
